---- MODULE Spec2Model ----
(***************************************************************************)
(* State-machine model of litestar_users.service.BaseUserService and of    *)
(* the login route handlers of litestar_users.route_handlers.              *)
(*                                                                         *)
(* Every service method is a pure operator over the store (users, linked   *)
(* OAuth accounts) that returns the outcome, the new store and the ordered *)
(* trace of the collaborator calls it made; one action per method applies  *)
(* the operator to the current store and records the outcome in `last`.    *)
(* Hooks and notifiers are overridable methods: their outcome (return or   *)
(* raise) is an input of the action.                                       *)
(*                                                                         *)
(* Time is counted in hours.  An e-mail address is <<name, casing>>, the   *)
(* casing 0 being the all-lower-case spelling, so str.lower / func.lower   *)
(* is the map <<n, c>> -> <<n, 0>>.                                        *)
(***************************************************************************)
EXTENDS Integers, Sequences, FiniteSets, TLC

VARIABLES
    users,            \* user table: id -> row
    nextId,           \* next primary key the store hands out
    oauth_accounts,   \* oauth-account table: set of rows
    now,              \* wall clock, hours
    cfg,              \* constructor arguments of the service
    session,          \* request.session["user_id"] of the client, 0 when empty
    outbox,           \* tokens handed to the notifier methods
    roles,            \* role table: id -> row
    user_roles,       \* user-role association table: set of <<user id, role id>>
    pc,               \* position of each in-flight add_user call
    last              \* outcome of the last operation

vars == <<users, nextId, oauth_accounts, now, cfg, session, outbox, roles, user_roles, pc, last>>

----------------------------------------------------------------------------
(* Bounds *)

MaxUsers == 2
MaxTime == 1
MaxClock == 25
MaxOutbox == 3

Emails == {<<"a", 0>>, <<"a", 1>>, <<"b", 0>>}
Passwords == {"p1", "p2"}
OAuthNames == {"google"}
AccountIds == {"x", "y"}
AccessTokens == {"t1", "t2"}

(* Sentinels for Python's None *)
NoEmail == <<"", 0>>
NoHash == [scheme |-> "none", pw |-> ""]
NoSub == "<absent>"

HookOutcomes == {"ok", "raise"}
PreLoginOutcomes == {"true", "false", "raise"}

----------------------------------------------------------------------------
(* str.lower() / sqlalchemy func.lower *)
lower(e) == <<e[1], 0>>

(* PasswordManager.hash: the preferred scheme of the configured list *)
hash(p) == [scheme |-> "preferred", pw |-> p]

(* PasswordManager.generate: a random password no caller knows *)
generate == "generated"

(* PasswordManager.verify_and_update(password, hash): (verified, new hash); *)
(* with no hash it runs passlib's dummy_verify and reports no match.        *)
verify_and_update(p, h) ==
    IF h = NoHash
    THEN [verified |-> FALSE, new_hash |-> NoHash, dummy |-> TRUE]
    ELSE [verified |-> h.pw = p,
          new_hash |-> IF h.pw = p /\ h.scheme = "deprecated" THEN hash(p) ELSE NoHash,
          dummy |-> FALSE]

----------------------------------------------------------------------------
(* Repository collaborators.  The persistence layer enforces the uniqueness *)
(* invariants of the data model at write time (IntegrityError).             *)

(* Variant: the unique constraint compares the stored spelling exactly *)
IdentifierTaken_exact(U, e, self) ==
    \E i \in DOMAIN U \ self : U[i].email = e

(* unique constraint of the auth identifier, compared case-insensitively *)
IdentifierTaken(U, e, self) ==
    \E i \in DOMAIN U \ self : lower(U[i].email) = lower(e)

(* Variant: the table accepts every row *)
user_repository_add_unconstrained(U, id, row) ==
    [res |-> "ok", users |-> (id :> row) @@ U, uid |-> id]

(* user_repository.add *)
user_repository_add(U, id, row) ==
    IF IdentifierTaken(U, row.email, {})
    THEN [res |-> "IntegrityError", users |-> U, uid |-> 0]
    ELSE [res |-> "ok", users |-> (id :> row) @@ U, uid |-> id]

(* user_repository.update: merges the attributes set on `data` into the row *)
(* with data.id; attributes that were not set keep their stored value.      *)
user_repository_update(U, id, data) ==
    IF id \notin DOMAIN U
    THEN [res |-> "NotFoundError", users |-> U, uid |-> 0]
    ELSE LET row == [f \in DOMAIN U[id] |->
                        IF f \in DOMAIN data THEN data[f] ELSE U[id][f]]
         IN  IF IdentifierTaken(U, row.email, {id})
             THEN [res |-> "IntegrityError", users |-> U, uid |-> 0]
             ELSE [res |-> "ok", users |-> [U EXCEPT ![id] = row], uid |-> id]

----------------------------------------------------------------------------
(* Token codec *)

STATE_TOKEN_AUDIENCE == "litestar-users:oauth2-state"
TokenLifetime == 24
StateTokenLifetime == 1

(* the service's signing secret; the OAuth2 routes are built with a secret *)
(* of their own or with the service's                                      *)
secret == "secret"
StateSecrets == {"state_secret", secret}

(* BaseUserService.generate_token: Token(exp = now + 24 h, sub = str(id), aud) *)
generate_token(user_id, aud, t) ==
    [key |-> secret, aud |-> aud, sub |-> ToString(user_id), exp |-> t + TokenLifetime]

----------------------------------------------------------------------------
(* Variant: the existence pre-check is issued without its filter *)
add_user_unfiltered(U, id, user, verify, activate) ==
    LET user_exists == DOMAIN U # {}
    IN  IF user_exists
        THEN [res |-> "IntegrityError", users |-> U, uid |-> 0]
        ELSE user_repository_add(U, id,
                [user EXCEPT !.is_verified = verify, !.is_active = activate])

(* add_user, lines 97-100: the existence pre-check on the lower-cased      *)
(* identifier                                                              *)
exists(U, user) == \E i \in DOMAIN U : lower(U[i].email) = lower(user.email)

(* BaseUserService.add_user *)
add_user(U, id, user, verify, activate) ==
    LET user_exists == exists(U, user)
    IN  IF user_exists
        THEN [res |-> "IntegrityError", users |-> U, uid |-> 0]
        ELSE user_repository_add(U, id,
                [user EXCEPT !.is_verified = verify, !.is_active = activate])

(* the row the user model constructor builds before add_user sets the two flags *)
user_model(email, password_hash) ==
    [email |-> email, password_hash |-> password_hash,
     is_active |-> TRUE, is_verified |-> FALSE]

(* Variant: registration never marks the user verified *)
verify_on_registration_never(c) == FALSE

(* register, line 119: verify = not require_verification_on_registration *)
verify_on_registration(c) == ~c.require_verification_on_registration

(* Variant: the verification token is issued for the password-reset context *)
initiate_verification_reset(uid, t) == generate_token(uid, "reset_password", t)

(* BaseUserService.initiate_verification: the token handed to              *)
(* send_verification_token                                                 *)
initiate_verification(uid, t) == generate_token(uid, "verify", t)

(* Variant: a failure after add_user takes the new row back *)
register_after_hook_rollback(U, id, c, t, data, send, post) ==
    LET verify == verify_on_registration(c)
        a == add_user(U, id, user_model(data.email, hash(data.password)), verify, TRUE)
        tok == initiate_verification(a.uid, t)
    IN  IF a.res # "ok"
        THEN [res |-> a.res, users |-> U, uid |-> 0, sent |-> {},
              trace |-> <<"pre_registration_hook", "add_user">>]
        ELSE IF c.require_verification_on_registration /\ send = "raise"
        THEN [res |-> "NotifierRaised", users |-> U, uid |-> 0, sent |-> {tok},
              trace |-> <<"pre_registration_hook", "add_user", "send_verification_token">>]
        ELSE LET tr == IF c.require_verification_on_registration
                       THEN <<"pre_registration_hook", "add_user", "send_verification_token",
                              "post_registration_hook">>
                       ELSE <<"pre_registration_hook", "add_user", "post_registration_hook">>
                 st == IF c.require_verification_on_registration THEN {tok} ELSE {}
             IN  IF post = "raise"
                 THEN [res |-> "HookRaised", users |-> U, uid |-> 0, sent |-> st,
                       trace |-> tr]
                 ELSE [res |-> "ok", users |-> a.users, uid |-> a.uid, sent |-> st,
                       trace |-> tr]

(* BaseUserService.register from the hashing of the password on.  send,    *)
(* post: outcomes of the verification notifier and of the                  *)
(* post-registration hook.  sent: the verification token handed to the     *)
(* notifier, if any.                                                       *)
register_after_hook(U, id, c, t, data, send, post) ==
    LET verify == verify_on_registration(c)
        a == add_user(U, id, user_model(data.email, hash(data.password)), verify, TRUE)
        tok == initiate_verification(a.uid, t)
    IN  IF a.res # "ok"
        THEN [res |-> a.res, users |-> U, uid |-> 0, sent |-> {},
              trace |-> <<"pre_registration_hook", "add_user">>]
        ELSE IF c.require_verification_on_registration /\ send = "raise"
        THEN [res |-> "NotifierRaised", users |-> a.users, uid |-> 0, sent |-> {tok},
              trace |-> <<"pre_registration_hook", "add_user", "send_verification_token">>]
        ELSE LET tr == IF c.require_verification_on_registration
                       THEN <<"pre_registration_hook", "add_user", "send_verification_token",
                              "post_registration_hook">>
                       ELSE <<"pre_registration_hook", "add_user", "post_registration_hook">>
                 st == IF c.require_verification_on_registration THEN {tok} ELSE {}
             IN  IF post = "raise"
                 THEN [res |-> "HookRaised", users |-> a.users, uid |-> 0, sent |-> st,
                       trace |-> tr]
                 ELSE [res |-> "ok", users |-> a.users, uid |-> a.uid, sent |-> st,
                       trace |-> tr]

(* Variant: a failure of the pre-registration hook is swallowed *)
register_ignores_hook(U, id, c, t, data, pre, send, post) ==
    register_after_hook(U, id, c, t, data, send, post)

(* BaseUserService.register.  pre: outcome of the pre-registration hook,   *)
(* awaited before anything else.                                           *)
register(U, id, c, t, data, pre, send, post) ==
    IF pre = "raise"
    THEN [res |-> "HookRaised", users |-> U, uid |-> 0, sent |-> {},
          trace |-> <<"pre_registration_hook">>]
    ELSE register_after_hook(U, id, c, t, data, send, post)

(* a password_hash column holding the submitted text itself *)
plain(p) == [scheme |-> "plain", pw |-> p]

(* BaseUserService.update_user.  data: the attributes set on the update    *)
(* object; password_hash holds the submitted password, which is hashed     *)
(* when it is truthy, that is when it is not the empty string.             *)
update_user(U, id, data) ==
    LET d == IF "password_hash" \in DOMAIN data
             THEN [data EXCEPT !.password_hash =
                        IF data.password_hash # ""
                        THEN hash(data.password_hash)
                        ELSE plain(data.password_hash)]
             ELSE data
    IN  user_repository_update(U, id, d)

(* get_current_user_handler.update_current_user: the id of the submitted   *)
(* data is replaced by the id of request.user                              *)
update_current_user(U, request_user, data) ==
    LET d == [data EXCEPT !.id = request_user]
    IN  update_user(U, d.id, [f \in DOMAIN d \ {"id"} |-> d[f]])

----------------------------------------------------------------------------
(* OAuth2 state tokens.  A token is the claim set it carries together with *)
(* the key that signed it; Garbage is a string that is no JWT at all.      *)

Garbage == [key |-> "", aud |-> "", sub |-> NoSub, exp |-> 0]

(* generate_state_token: data["aud"] is overwritten, exp = now + lifetime *)
generate_state_token(data, sec, t) ==
    [key |-> sec, aud |-> STATE_TOKEN_AUDIENCE,
     sub |-> IF "sub" \in DOMAIN data THEN data.sub ELSE NoSub,
     exp |-> t + StateTokenLifetime]

(* decode_jwt(token, secret, audience) = jwt.decode of PyJWT: DecodeError  *)
(* for a malformed token or a bad signature (InvalidSignatureError is a    *)
(* DecodeError); ExpiredSignatureError and InvalidAudienceError are        *)
(* InvalidTokenErrors that are no DecodeError.                             *)
decode_jwt(tok, sec, audience, t) ==
    IF tok = Garbage \/ tok.key # sec THEN "DecodeError"
    ELSE IF tok.exp <= t THEN "ExpiredSignatureError"
    ELSE IF tok.aud \notin audience THEN "InvalidAudienceError"
    ELSE "ok"

(* the 400-class outcomes: HTTPException(status_code=HTTP_400_BAD_REQUEST) *)
BadRequest ==
    {"400 DecodeError", "400 User already exists.", "400 OAuth account without email",
     "400 Associate user is required", "400"}

----------------------------------------------------------------------------
(* oauth2_repository collaborators *)

(* Variant: the table has no constraint on the provider identity *)
PairTaken_never(O, d) == FALSE

(* the unique constraint of the oauth-account table on (oauth_name,        *)
(* account_id)                                                             *)
PairTaken(O, d) ==
    \E a \in O : a.oauth_name = d.oauth_name /\ a.account_id = d.account_id

(* oauth2_repository.add_oauth_account: appends the account to the user;   *)
(* the (oauth_name, account_id) pair is unique in the table.               *)
add_oauth_account(O, uid, d) ==
    IF PairTaken(O, d)
    THEN [res |-> "IntegrityError", oauth |-> O]
    ELSE [res |-> "ok", oauth |-> O \cup {[user_id |-> uid] @@ d}]

(* oauth2_repository.update_oauth_account: overwrites the account's columns *)
update_oauth_account(O, account, d) ==
    (O \ {account}) \cup {[user_id |-> account.user_id] @@ d}

(* Variant: the lookup by provider identity finds nothing *)
get_by_oauth_account_miss(U, O, c, oauth, account_id) ==
    [res |-> "NotFoundError", uid |-> 0, trace |-> <<"oauth2_repository.get_one">>]

(* BaseUserService.get_by_oauth_account *)
get_by_oauth_account(U, O, c, oauth, account_id) ==
    IF ~c.oauth2_repository
    THEN [res |-> "ImproperlyConfigured", uid |-> 0, trace |-> <<>>]
    ELSE LET found == {a \in O : a.oauth_name = oauth /\ a.account_id = account_id}
         IN  IF found = {}
             THEN [res |-> "NotFoundError", uid |-> 0, trace |-> <<"oauth2_repository.get_one">>]
             ELSE LET a == CHOOSE a \in found : TRUE
                  IN  IF a.user_id \in DOMAIN U
                      THEN [res |-> "ok", uid |-> a.user_id,
                            trace |-> <<"oauth2_repository.get_one", "get_user">>]
                      ELSE [res |-> "NotFoundError", uid |-> 0,
                            trace |-> <<"oauth2_repository.get_one", "get_user">>]

(* Variant: the lookup returns the users stored under another address *)
get_user_by_miss(U, email) == {i \in DOMAIN U : U[i].email # email}

(* BaseUserService.get_user_by(email=...): the ids whose email column      *)
(* equals the argument (an exact, case-sensitive comparison)               *)
get_user_by(U, email) == {i \in DOMAIN U : U[i].email = email}

(* BaseUserService._oauth2_callback *)
_oauth2_callback(U, O, id, c, t, oauth_name, account_id, account_email, associate_by_email, is_verified_by_default, state, ss, d, post) ==
    IF ~c.oauth2_repository
    THEN [res |-> "ImproperlyConfigured", users |-> U, oauth |-> O, uid |-> 0, trace |-> <<>>]
    ELSE
    LET dec == decode_jwt(state, ss, {STATE_TOKEN_AUDIENCE}, t)
        g == get_by_oauth_account(U, O, c, oauth_name, account_id)
        byEmail == get_user_by(U, account_email)
    IN  IF dec = "DecodeError"
        THEN [res |-> "400 DecodeError", users |-> U, oauth |-> O, uid |-> 0,
              trace |-> <<"decode_jwt">>]
        ELSE IF dec # "ok"
        THEN [res |-> dec, users |-> U, oauth |-> O, uid |-> 0, trace |-> <<"decode_jwt">>]
        ELSE IF g.res = "ok"
        THEN \* Update oauth
             [res |-> "ok", users |-> U, uid |-> g.uid,
              oauth |-> {IF a.user_id = g.uid /\ a.account_id = account_id
                            /\ a.oauth_name = oauth_name
                         THEN [user_id |-> a.user_id] @@ d ELSE a : a \in O},
              trace |-> <<"decode_jwt", "get_by_oauth_account", "update_oauth_account">>]
        ELSE IF byEmail # {}
        THEN \* Associate account
             LET u == CHOOSE i \in byEmail : TRUE
                 a == add_oauth_account(O, u, d)
             IN  [res |-> a.res, users |-> U, oauth |-> a.oauth,
                  uid |-> IF a.res = "ok" THEN u ELSE 0,
                  trace |-> <<"decode_jwt", "get_by_oauth_account", "get_user_by",
                              "add_oauth_account">>]
        ELSE IF ~associate_by_email
        THEN [res |-> "400 User already exists.", users |-> U, oauth |-> O, uid |-> 0,
              trace |-> <<"decode_jwt", "get_by_oauth_account", "get_user_by">>]
        ELSE \* Create account
             LET row == [email |-> account_email, password_hash |-> hash(generate),
                         is_verified |-> is_verified_by_default, is_active |-> TRUE]
                 n == user_repository_add(U, id, row)
                 a == add_oauth_account(O, n.uid, d)
             IN  IF n.res # "ok"
                 THEN [res |-> n.res, users |-> U, oauth |-> O, uid |-> 0,
                       trace |-> <<"decode_jwt", "get_by_oauth_account", "get_user_by",
                                   "user_repository.add">>]
                 ELSE IF a.res # "ok"
                 THEN [res |-> a.res, users |-> n.users, oauth |-> O, uid |-> 0,
                       trace |-> <<"decode_jwt", "get_by_oauth_account", "get_user_by",
                                   "user_repository.add", "add_oauth_account">>]
                 ELSE [res |-> IF post = "raise" THEN "HookRaised" ELSE "ok",
                       users |-> n.users, oauth |-> a.oauth,
                       uid |-> IF post = "raise" THEN 0 ELSE n.uid,
                       trace |-> <<"decode_jwt", "get_by_oauth_account", "get_user_by",
                                   "user_repository.add", "add_oauth_account",
                                   "post_registration_hook">>]

(* BaseUserService._oauth2_associate_callback; associate_user is the id of *)
(* the row the caller passes                                               *)
_oauth2_associate_callback(U, O, c, t, associate_user, state, ss, d) ==
    IF ~c.oauth2_repository
    THEN [res |-> "ImproperlyConfigured", users |-> U, oauth |-> O, uid |-> 0, trace |-> <<>>]
    ELSE
    LET dec == decode_jwt(state, ss, {STATE_TOKEN_AUDIENCE}, t)
        a == add_oauth_account(O, associate_user, d)
    IN  IF dec = "DecodeError"
        THEN [res |-> "400 DecodeError", users |-> U, oauth |-> O, uid |-> 0,
              trace |-> <<"decode_jwt">>]
        ELSE IF dec # "ok"
        THEN [res |-> dec, users |-> U, oauth |-> O, uid |-> 0, trace |-> <<"decode_jwt">>]
        ELSE IF state.sub = NoSub
        THEN \* state_data["sub"] on a claim set without "sub"
             [res |-> "KeyError", users |-> U, oauth |-> O, uid |-> 0,
              trace |-> <<"decode_jwt">>]
        ELSE IF state.sub # ToString(associate_user)
        THEN [res |-> "400", users |-> U, oauth |-> O, uid |-> 0, trace |-> <<"decode_jwt">>]
        ELSE [res |-> a.res, users |-> U, oauth |-> a.oauth,
              uid |-> IF a.res = "ok" THEN associate_user ELSE 0,
              trace |-> <<"decode_jwt", "add_oauth_account">>]

(* oauth_client.get_access_token: the provider's token response for the    *)
(* code; every access token comes with a refresh token of its own          *)
get_access_token(access_token) ==
    [access_token |-> access_token, refresh_token |-> <<"refresh", access_token>>]

(* Variant: the callback goes on to its sub-flow whatever the provider gave *)
oauth2_callback_any_email(U, O, id, c, t, oauth_name, access_token, account_id, account_email, state, ss, associate_by_email, is_verified_by_default, is_associate_callback, associate_user, post) ==
    LET token == get_access_token(access_token)
        d == [oauth_name |-> oauth_name, access_token |-> token.access_token,
              account_id |-> account_id, account_email |-> account_email,
              refresh_token |-> token.refresh_token]
        r == IF is_associate_callback
             THEN _oauth2_associate_callback(U, O, c, t, associate_user, state, ss, d)
             ELSE _oauth2_callback(U, O, id, c, t, oauth_name, account_id, account_email,
                                   associate_by_email, is_verified_by_default, state, ss,
                                   d, post)
    IN  [r EXCEPT !.trace = <<"get_access_token", "get_id_email">> \o r.trace]

(* BaseUserService.oauth2_callback.  access_token, account_id and          *)
(* account_email are what the provider returns for the code; associate_user *)
(* is 0 when the caller passes None.                                       *)
oauth2_callback(U, O, id, c, t, oauth_name, access_token, account_id, account_email, state, ss, associate_by_email, is_verified_by_default, is_associate_callback, associate_user, post) ==
    LET token == get_access_token(access_token)
        d == [oauth_name |-> oauth_name, access_token |-> token.access_token,
              account_id |-> account_id, account_email |-> account_email,
              refresh_token |-> token.refresh_token]
        r == IF is_associate_callback
             THEN _oauth2_associate_callback(U, O, c, t, associate_user, state, ss, d)
             ELSE _oauth2_callback(U, O, id, c, t, oauth_name, account_id, account_email,
                                   associate_by_email, is_verified_by_default, state, ss,
                                   d, post)
    IN  IF ~c.oauth2_repository
        THEN [res |-> "ImproperlyConfigured", users |-> U, oauth |-> O, uid |-> 0,
              trace |-> <<>>]
        ELSE IF account_email = NoEmail
        THEN [res |-> "400 OAuth account without email", users |-> U, oauth |-> O,
              uid |-> 0, trace |-> <<"get_access_token", "get_id_email">>]
        ELSE IF is_associate_callback /\ associate_user = 0
        THEN [res |-> "400 Associate user is required", users |-> U, oauth |-> O,
              uid |-> 0, trace |-> <<"get_access_token", "get_id_email">>]
        ELSE [r EXCEPT !.trace = <<"get_access_token", "get_id_email">> \o r.trace]

(* BaseUserService.oauth2_authorize: the state token placed in the         *)
(* authorization URL                                                       *)
oauth2_authorize(c, t, ss, state_data) ==
    IF ~c.oauth2_repository
    THEN [res |-> "ImproperlyConfigured", state |-> Garbage, trace |-> <<>>]
    ELSE [res |-> "ok", state |-> generate_state_token(state_data, ss, t),
          trace |-> <<"generate_state_token", "get_authorization_url">>]

----------------------------------------------------------------------------
(* a hash stored under a scheme the configured list ranks as deprecated *)
legacy_hash(p) == [scheme |-> "deprecated", pw |-> p]

(* Variant: the rejection looks at the password check alone *)
rejected_ignores_hook(password_verified, should_proceed) ==
    ~password_verified

(* authenticate, line 231: the one place that turns the two checks into a *)
(* rejection                                                               *)
rejected(password_verified, should_proceed) ==
    ~password_verified \/ ~should_proceed

(* Variant: the NotFoundError handler returns None at once *)
authenticate_not_found_early(U, data) ==
    [res |-> "None", uid |-> 0, users |-> U, trace |-> <<"pre_login_hook", "get_one">>]

(* authenticate, the NotFoundError handler: passlib's dummy_verify on the  *)
(* supplied password, then None                                            *)
authenticate_not_found(U, data) ==
    [res |-> "None", uid |-> 0, users |-> U,
     trace |-> <<"pre_login_hook", "get_one",
                 IF verify_and_update(data.password, NoHash).dummy
                 THEN "dummy_verify" ELSE "verify">>]

(* Variant: the hash the password manager reports is not written back *)
upgrade_hash_skipped(U, u, new_password_hash) == U

(* authenticate, lines 228-229: a reported new hash is written to the row *)
upgrade_hash(U, u, new_password_hash) ==
    IF new_password_hash # NoHash
    THEN [U EXCEPT ![u].password_hash = new_password_hash]
    ELSE U

(* Variant: the accepted user is returned without the post-login hook *)
authenticate_accept_silent(U, u, tr, post) ==
    [res |-> "user", uid |-> u, users |-> U, trace |-> tr]

(* authenticate, lines 234-236: the post-login hook, then the user *)
authenticate_accept(U, u, tr, post) ==
    IF post = "raise"
    THEN [res |-> "HookRaised", uid |-> 0, users |-> U,
          trace |-> tr \o <<"post_login_hook">>]
    ELSE [res |-> "user", uid |-> u, users |-> U,
          trace |-> tr \o <<"post_login_hook">>]

(* authenticate, from the password check on, for the row u get_one found *)
authenticate_found(U, u, data, should_proceed, post) ==
    LET v == verify_and_update(data.password, U[u].password_hash)
        U1 == upgrade_hash(U, u, v.new_hash)
        tr == <<"pre_login_hook", "get_one", "verify">>
                \o (IF v.new_hash # NoHash THEN <<"_update">> ELSE <<>>)
    IN  IF rejected(v.verified, should_proceed)
        THEN [res |-> "None", uid |-> 0, users |-> U1, trace |-> tr]
        ELSE authenticate_accept(U1, u, tr, post)

(* Variant: a pre-login hook returning false ends authenticate at once *)
authenticate_early(U, data, pre, post) ==
    LET found == {i \in DOMAIN U : lower(U[i].email) = lower(data.email)}
    IN  IF pre = "raise"
        THEN [res |-> "HookRaised", uid |-> 0, users |-> U, trace |-> <<"pre_login_hook">>]
        ELSE IF pre = "false"
        THEN [res |-> "None", uid |-> 0, users |-> U, trace |-> <<"pre_login_hook">>]
        ELSE IF found = {}
        THEN authenticate_not_found(U, data)
        ELSE authenticate_found(U, CHOOSE i \in found : TRUE, data, TRUE, post)

(* BaseUserService.authenticate.  pre: the pre-login hook returns true or  *)
(* false, or raises; post: the post-login hook returns or raises.  The     *)
(* result is "user" (with its id), "None", or the hook's failure; trace is *)
(* the ordered list of the calls made before the result was produced.      *)
authenticate(U, data, pre, post) ==
    LET should_proceed == pre = "true"
        found == {i \in DOMAIN U : lower(U[i].email) = lower(data.email)}
    IN  IF pre = "raise"
        THEN [res |-> "HookRaised", uid |-> 0, users |-> U, trace |-> <<"pre_login_hook">>]
        ELSE IF found = {}
        THEN authenticate_not_found(U, data)
        ELSE authenticate_found(U, CHOOSE i \in found : TRUE, data, should_proceed, post)

(* Variant: the route has no verification gate *)
not_verified_never(user) == FALSE

(* login_jwt: if user.is_verified is False *)
not_verified(user) == user.is_verified = FALSE

(* get_auth_handler.login_jwt: the response is a token for str(user.id), or *)
(* the raised exception                                                    *)
login_jwt(U, c, data, pre, post) ==
    LET a == authenticate(U, data, pre, post)
    IN  IF c.auth_backend # "jwt"
        THEN [res |-> "ImproperlyConfigured", uid |-> 0, users |-> U, trace |-> <<>>,
              token |-> NoSub]
        ELSE IF a.res = "HookRaised"
        THEN [res |-> "HookRaised", uid |-> 0, users |-> a.users, trace |-> a.trace,
              token |-> NoSub]
        ELSE IF a.res = "None"
        THEN [res |-> "NotAuthorized: login failed, invalid input", uid |-> 0,
              users |-> a.users, trace |-> a.trace, token |-> NoSub]
        ELSE IF not_verified(a.users[a.uid])
        THEN [res |-> "PermissionDenied: not verified", uid |-> 0, users |-> a.users,
              trace |-> a.trace, token |-> NoSub]
        ELSE [res |-> "ok", uid |-> a.uid, users |-> a.users, trace |-> a.trace,
              token |-> ToString(a.uid)]

(* Variant: the session route has the verification gate of the JWT route *)
login_session_gated(U, c, sess, data, pre, post) ==
    LET a == authenticate(U, data, pre, post)
    IN  IF c.auth_backend # "session"
        THEN [res |-> "ImproperlyConfigured", uid |-> 0, users |-> U, trace |-> <<>>,
              session |-> sess]
        ELSE IF a.res = "HookRaised"
        THEN [res |-> "HookRaised", uid |-> 0, users |-> a.users, trace |-> a.trace,
              session |-> sess]
        ELSE IF a.res = "None"
        THEN [res |-> "NotAuthorized: login failed, invalid input", uid |-> 0,
              users |-> a.users, trace |-> a.trace \o <<"clear_session">>, session |-> 0]
        ELSE IF not_verified(a.users[a.uid])
        THEN [res |-> "PermissionDenied: not verified", uid |-> 0, users |-> a.users,
              trace |-> a.trace, session |-> sess]
        ELSE [res |-> "ok", uid |-> a.uid, users |-> a.users,
              trace |-> a.trace \o <<"set_session">>, session |-> a.uid]

(* get_auth_handler.login_session: sess is request.session["user_id"] *)
login_session(U, c, sess, data, pre, post) ==
    LET a == authenticate(U, data, pre, post)
    IN  IF c.auth_backend # "session"
        THEN [res |-> "ImproperlyConfigured", uid |-> 0, users |-> U, trace |-> <<>>,
              session |-> sess]
        ELSE IF a.res = "HookRaised"
        THEN [res |-> "HookRaised", uid |-> 0, users |-> a.users, trace |-> a.trace,
              session |-> sess]
        ELSE IF a.res = "None"
        THEN [res |-> "NotAuthorized: login failed, invalid input", uid |-> 0,
              users |-> a.users, trace |-> a.trace \o <<"clear_session">>, session |-> 0]
        ELSE [res |-> "ok", uid |-> a.uid, users |-> a.users,
              trace |-> a.trace \o <<"set_session">>, session |-> a.uid]

(* the end of both OAuth2 callback routes: the session of a SessionAuth    *)
(* backend takes the user's id, any other backend answers with a token for *)
(* str(user.id)                                                            *)
oauth2_login(c, sess, r) ==
    [res |-> "ok", uid |-> r.uid, users |-> r.users, oauth |-> r.oauth,
     trace |-> r.trace \o <<IF c.auth_backend = "session" THEN "set_session" ELSE "login">>,
     session |-> IF c.auth_backend = "session" THEN r.uid ELSE sess,
     token |-> IF c.auth_backend = "session" THEN NoSub ELSE ToString(r.uid)]

(* an OAuth2 callback route that ends with an exception *)
oauth2_denied(res, sess, r) ==
    [res |-> res, uid |-> 0, users |-> r.users, oauth |-> r.oauth, trace |-> r.trace,
     session |-> sess, token |-> NoSub]

(* Variant: the login callback route logs in whoever the service returns *)
oauth2_handler_callback_any(U, O, id, c, t, sess, oauth_name, access_token, account_id, account_email, state, ss, associate_by_email, is_verified_by_default) ==
    LET r == oauth2_callback(U, O, id, c, t, oauth_name, access_token, account_id,
                             account_email, state, ss, associate_by_email,
                             is_verified_by_default, FALSE, 0, "ok")
    IN  IF r.res # "ok" THEN oauth2_denied(r.res, sess, r)
        ELSE oauth2_login(c, sess, r)

(* get_oauth2_handler.callback *)
oauth2_handler_callback(U, O, id, c, t, sess, oauth_name, access_token, account_id, account_email, state, ss, associate_by_email, is_verified_by_default) ==
    LET r == oauth2_callback(U, O, id, c, t, oauth_name, access_token, account_id,
                             account_email, state, ss, associate_by_email,
                             is_verified_by_default, FALSE, 0, "ok")
    IN  IF r.res # "ok" THEN oauth2_denied(r.res, sess, r)
        ELSE IF r.users[r.uid].is_active = FALSE
        THEN oauth2_denied("400 User is not active.", sess, r)
        ELSE oauth2_login(c, sess, r)

(* get_oauth2_associate_handler.callback; user_id is request.user.id *)
oauth2_associate_handler_callback(U, O, id, c, t, sess, user_id, oauth_name, access_token, account_id, account_email, state, ss) ==
    LET none == [users |-> U, oauth |-> O, trace |-> <<"get_user">>]
        r == oauth2_callback(U, O, id, c, t, oauth_name, access_token, account_id,
                             account_email, state, ss, FALSE, FALSE, TRUE, user_id, "ok")
        r1 == [r EXCEPT !.trace = <<"get_user">> \o r.trace]
    IN  IF user_id \notin DOMAIN U THEN oauth2_denied("NotFoundError", sess, none)
        ELSE IF U[user_id].is_active = FALSE
        THEN oauth2_denied("401 User is not active.", sess, none)
        ELSE IF r.res # "ok" THEN oauth2_denied(r.res, sess, r1)
        ELSE oauth2_login(c, sess, r1)

----------------------------------------------------------------------------
(* Verification and password reset *)

(* uuid4(): an id no row of the user table has *)
uuid4 == -1

(* Variant: the codec does not look at the expiry *)
Token_decode_unexpiring(tok, t) ==
    IF tok = Garbage \/ tok.key # secret \/ tok.sub = NoSub
    THEN "NotAuthorizedException" ELSE "ok"

(* litestar's Token.decode(encoded_token, secret, algorithm): fails with   *)
(* NotAuthorizedException on a string that is no JWT, a bad signature, an  *)
(* expired token or a claim set without the claims of Token; the audience  *)
(* is not verified here.                                                   *)
Token_decode(tok, t) ==
    IF tok = Garbage \/ tok.key # secret \/ tok.exp <= t \/ tok.sub = NoSub
    THEN "NotAuthorizedException" ELSE "ok"

(* Variant: the audience of the decoded token is not compared *)
_decode_and_verify_token_any_aud(tok, context, t) ==
    IF Token_decode(tok, t) # "ok" THEN "InvalidTokenException" ELSE "ok"

(* BaseUserService._decode_and_verify_token *)
_decode_and_verify_token(tok, context, t) ==
    IF Token_decode(tok, t) # "ok" THEN "InvalidTokenException"
    ELSE IF tok.aud # context THEN "InvalidTokenException"
    ELSE "ok"

(* verify / reset_password: UUID(token.sub), falling back to int(token.sub) *)
parse_user_id(sub) == CHOOSE i \in uuid4..(MaxUsers + 1) : ToString(i) = sub

(* Variant: the NotFoundError of the repository is not translated *)
verify_not_found_leaks(U) ==
    [res |-> "NotFoundError", users |-> U, uid |-> 0,
     trace |-> <<"_decode_and_verify_token", "user_repository.update">>]

(* verify, the NotFoundError handler *)
verify_not_found(U) ==
    [res |-> "InvalidTokenException", users |-> U, uid |-> 0,
     trace |-> <<"_decode_and_verify_token", "user_repository.update">>]

(* Variant: a failing post-verification hook undoes the update *)
verify_found_rollback(U, U1, user_id, post) ==
    IF post = "raise"
    THEN [res |-> "HookRaised", users |-> U, uid |-> 0,
          trace |-> <<"_decode_and_verify_token", "user_repository.update",
                      "post_verification_hook">>]
    ELSE [res |-> "ok", users |-> U1, uid |-> user_id,
          trace |-> <<"_decode_and_verify_token", "user_repository.update",
                      "post_verification_hook">>]

(* verify, after the update turned the table U into U1 *)
verify_found(U, U1, user_id, post) ==
    [res |-> IF post = "raise" THEN "HookRaised" ELSE "ok",
     users |-> U1, uid |-> IF post = "raise" THEN 0 ELSE user_id,
     trace |-> <<"_decode_and_verify_token", "user_repository.update",
                 "post_verification_hook">>]

(* Variant: a verification token is good for one verification only *)
verify_once(U, tok, t, post) ==
    IF _decode_and_verify_token(tok, "verify", t) # "ok"
    THEN [res |-> "InvalidTokenException", users |-> U, uid |-> 0,
          trace |-> <<"_decode_and_verify_token">>]
    ELSE LET user_id == parse_user_id(tok.sub)
             u == user_repository_update(U, user_id, [is_verified |-> TRUE])
         IN  IF u.res = "NotFoundError" THEN verify_not_found(U)
             ELSE IF U[user_id].is_verified
             THEN [res |-> "InvalidTokenException", users |-> U, uid |-> 0,
                   trace |-> <<"_decode_and_verify_token">>]
             ELSE verify_found(U, u.users, user_id, post)

(* Variant: verify decodes in the context of the password reset *)
verify_other_context(U, tok, t, post) ==
    IF _decode_and_verify_token(tok, "reset_password", t) # "ok"
    THEN [res |-> "InvalidTokenException", users |-> U, uid |-> 0,
          trace |-> <<"_decode_and_verify_token">>]
    ELSE LET user_id == parse_user_id(tok.sub)
             u == user_repository_update(U, user_id, [is_verified |-> TRUE])
         IN  IF u.res = "NotFoundError" THEN verify_not_found(U)
             ELSE verify_found(U, u.users, user_id, post)

(* BaseUserService.verify.  post: outcome of the post-verification hook *)
verify(U, tok, t, post) ==
    IF _decode_and_verify_token(tok, "verify", t) # "ok"
    THEN [res |-> "InvalidTokenException", users |-> U, uid |-> 0,
          trace |-> <<"_decode_and_verify_token">>]
    ELSE LET user_id == parse_user_id(tok.sub)
             u == user_repository_update(U, user_id, [is_verified |-> TRUE])
         IN  IF u.res = "NotFoundError" THEN verify_not_found(U)
             ELSE verify_found(U, u.users, user_id, post)

(* Variant: the e-mail is looked up as spelled *)
initiate_password_reset_exact(U, email, t, send) ==
    LET found == {i \in DOMAIN U : U[i].email = email}
    IN  IF found = {}
        THEN [res |-> "None", users |-> U, sent |-> {},
              issued |-> {generate_token(uuid4, "reset_password", t)},
              trace |-> <<"get_one_or_none", "generate_token">>]
        ELSE LET user == CHOOSE i \in found : TRUE
                 token == generate_token(user, "reset_password", t)
             IN  [res |-> IF send = "raise" THEN "NotifierRaised" ELSE "None",
                  users |-> U, sent |-> {token}, issued |-> {token},
                  trace |-> <<"get_one_or_none", "generate_token",
                              "send_password_reset_token">>]

(* BaseUserService.initiate_password_reset.  send: outcome of the notifier *)
(* send_password_reset_token; issued: the tokens generated; sent: the      *)
(* tokens handed to the notifier.                                          *)
initiate_password_reset(U, email, t, send) ==
    LET found == {i \in DOMAIN U : lower(U[i].email) = lower(email)}
    IN  IF found = {}
        THEN [res |-> "None", users |-> U, sent |-> {},
              issued |-> {generate_token(uuid4, "reset_password", t)},
              trace |-> <<"get_one_or_none", "generate_token">>]
        ELSE LET user == CHOOSE i \in found : TRUE
                 token == generate_token(user, "reset_password", t)
             IN  [res |-> IF send = "raise" THEN "NotifierRaised" ELSE "None",
                  users |-> U, sent |-> {token}, issued |-> {token},
                  trace |-> <<"get_one_or_none", "generate_token",
                              "send_password_reset_token">>]

(* Variant: signature, expiry and audience of the token are not checked *)
reset_password_unchecked(U, tok, password, t) ==
    LET user_id == parse_user_id(tok.sub)
        u == user_repository_update(U, user_id, [password_hash |-> hash(password)])
    IN  IF tok = Garbage \/ tok.sub = NoSub
        THEN [res |-> "InvalidTokenException", users |-> U, uid |-> 0,
              trace |-> <<"_decode_and_verify_token">>]
        ELSE IF u.res = "NotFoundError"
        THEN [res |-> "InvalidTokenException", users |-> U, uid |-> 0,
              trace |-> <<"_decode_and_verify_token", "user_repository.update">>]
        ELSE [res |-> "None", users |-> u.users, uid |-> user_id,
              trace |-> <<"_decode_and_verify_token", "user_repository.update">>]

(* Variant: a password reset also marks the user as verified *)
reset_password_verifies(U, tok, password, t) ==
    IF _decode_and_verify_token(tok, "reset_password", t) # "ok"
    THEN [res |-> "InvalidTokenException", users |-> U, uid |-> 0,
          trace |-> <<"_decode_and_verify_token">>]
    ELSE LET user_id == parse_user_id(tok.sub)
             u == user_repository_update(U, user_id,
                        [password_hash |-> hash(password), is_verified |-> TRUE])
         IN  IF u.res = "NotFoundError"
             THEN [res |-> "InvalidTokenException", users |-> U, uid |-> 0,
                   trace |-> <<"_decode_and_verify_token", "user_repository.update">>]
             ELSE [res |-> "None", users |-> u.users, uid |-> user_id,
                   trace |-> <<"_decode_and_verify_token", "user_repository.update">>]

(* BaseUserService.reset_password; uid is the id of the row written *)
reset_password(U, tok, password, t) ==
    IF _decode_and_verify_token(tok, "reset_password", t) # "ok"
    THEN [res |-> "InvalidTokenException", users |-> U, uid |-> 0,
          trace |-> <<"_decode_and_verify_token">>]
    ELSE LET user_id == parse_user_id(tok.sub)
             u == user_repository_update(U, user_id, [password_hash |-> hash(password)])
         IN  IF u.res = "NotFoundError"
             THEN [res |-> "InvalidTokenException", users |-> U, uid |-> 0,
                   trace |-> <<"_decode_and_verify_token", "user_repository.update">>]
             ELSE [res |-> "None", users |-> u.users, uid |-> user_id,
                   trace |-> <<"_decode_and_verify_token", "user_repository.update">>]

(* BaseUserService.delete_user: user_repository.delete *)
delete_user(U, id) ==
    IF id \notin DOMAIN U
    THEN [res |-> "NotFoundError", users |-> U, uid |-> 0]
    ELSE [res |-> "ok", users |-> [i \in DOMAIN U \ {id} |-> U[i]], uid |-> id]

----------------------------------------------------------------------------
(* Roles.  R is the role table (id -> row), UR the user-role association   *)
(* table.  Every operation returns its outcome, the two tables, the id it  *)
(* yields and the ordered repository calls it made.                        *)

MaxRoles == 2
RoleIds == 1..MaxRoles
RoleNames == {"admin", "editor"}

(* unique constraint of the role name *)
NameTaken(R, name, self) == \E i \in DOMAIN R \ self : R[i].name = name

(* role_repository.get *)
role_repository_get(R, id) ==
    IF id \in DOMAIN R THEN [res |-> "ok", out |-> id]
    ELSE [res |-> "NotFoundError", out |-> 0]

(* role_repository.get_one(name=...) *)
role_repository_get_one(R, name) ==
    LET found == {i \in DOMAIN R : R[i].name = name}
    IN  IF found = {} THEN [res |-> "NotFoundError", out |-> 0]
        ELSE [res |-> "ok", out |-> CHOOSE i \in found : TRUE]

(* role_repository.add *)
role_repository_add(R, data) ==
    IF data.id \in DOMAIN R \/ NameTaken(R, data.name, {})
    THEN [res |-> "IntegrityError", roles |-> R, out |-> 0]
    ELSE [res |-> "ok", roles |-> (data.id :> [name |-> data.name]) @@ R, out |-> data.id]

(* role_repository.update: the row with data.id takes the attributes of data *)
role_repository_update(R, data) ==
    IF data.id \notin DOMAIN R
    THEN [res |-> "NotFoundError", roles |-> R, out |-> 0]
    ELSE IF NameTaken(R, data.name, {data.id})
    THEN [res |-> "IntegrityError", roles |-> R, out |-> 0]
    ELSE [res |-> "ok", roles |-> [R EXCEPT ![data.id] = [name |-> data.name]],
          out |-> data.id]

(* role_repository.delete: the row goes, and with it its association rows *)
role_repository_delete(R, UR, id) ==
    IF id \notin DOMAIN R
    THEN [res |-> "NotFoundError", roles |-> R, user_roles |-> UR, out |-> 0]
    ELSE [res |-> "ok", roles |-> [i \in DOMAIN R \ {id} |-> R[i]],
          user_roles |-> {x \in UR : x[2] # id}, out |-> id]

(* role_repository.assign_role: user.roles.append(role) *)
role_repository_assign_role(UR, user, role) == UR \cup {<<user, role>>}

(* role_repository.revoke_role: user.roles.remove(role) *)
role_repository_revoke_role(UR, user, role) == UR \ {<<user, role>>}

(* user.roles: the relation as the ORM loaded it with the user *)
user_roles_loaded(UR, user) == {x[2] : x \in {y \in UR : y[1] = user}}

(* the failure of an operation whose repository was never supplied *)
Unconfigured(R, UR) ==
    [res |-> "ImproperlyConfigured", roles |-> R, user_roles |-> UR, out |-> 0,
     trace |-> <<>>]

(* Variant: get_role goes to the repository without looking at it first *)
get_role_unguarded(c, R, UR, id) ==
    [res |-> role_repository_get(R, id).res, roles |-> R, user_roles |-> UR,
     out |-> role_repository_get(R, id).out, trace |-> <<"role_repository.get">>]

(* BaseUserService.get_role *)
get_role(c, R, UR, id) ==
    IF ~c.role_repository THEN Unconfigured(R, UR)
    ELSE [res |-> role_repository_get(R, id).res, roles |-> R, user_roles |-> UR,
          out |-> role_repository_get(R, id).out, trace |-> <<"role_repository.get">>]

(* BaseUserService.list_and_count_roles (no filter): out is the count *)
list_and_count_roles(c, R, UR) ==
    IF ~c.role_repository THEN Unconfigured(R, UR)
    ELSE [res |-> "ok", roles |-> R, user_roles |-> UR, out |-> Cardinality(DOMAIN R),
          trace |-> <<"role_repository.list_and_count">>]

(* BaseUserService.get_role_by_name *)
get_role_by_name(c, R, UR, name) ==
    IF ~c.role_repository THEN Unconfigured(R, UR)
    ELSE [res |-> role_repository_get_one(R, name).res, roles |-> R, user_roles |-> UR,
          out |-> role_repository_get_one(R, name).out,
          trace |-> <<"role_repository.get_one">>]

(* BaseUserService.add_role *)
add_role(c, R, UR, data) ==
    IF ~c.role_repository THEN Unconfigured(R, UR)
    ELSE LET a == role_repository_add(R, data)
         IN  [res |-> a.res, roles |-> a.roles, user_roles |-> UR, out |-> a.out,
              trace |-> <<"role_repository.add">>]

(* BaseUserService.update_role: id_ is not used, the repository goes by data.id *)
update_role(c, R, UR, id_, data) ==
    IF ~c.role_repository THEN Unconfigured(R, UR)
    ELSE LET a == role_repository_update(R, data)
         IN  [res |-> a.res, roles |-> a.roles, user_roles |-> UR, out |-> a.out,
              trace |-> <<"role_repository.update">>]

(* BaseUserService.delete_role *)
delete_role(c, R, UR, id_) ==
    IF ~c.role_repository THEN Unconfigured(R, UR)
    ELSE LET a == role_repository_delete(R, UR, id_)
         IN  [res |-> a.res, roles |-> a.roles, user_roles |-> a.user_roles, out |-> a.out,
              trace |-> <<"role_repository.delete">>]

(* Variant: assign_role hands every pair to the repository *)
assign_role_unchecked(U, c, R, UR, user_id, role_id) ==
    IF ~c.role_repository THEN Unconfigured(R, UR)
    ELSE IF user_id \notin DOMAIN U
    THEN [res |-> "NotFoundError", roles |-> R, user_roles |-> UR, out |-> 0,
          trace |-> <<"user_repository.get">>]
    ELSE IF get_role(c, R, UR, role_id).res # "ok"
    THEN [res |-> get_role(c, R, UR, role_id).res, roles |-> R, user_roles |-> UR,
          out |-> 0, trace |-> <<"user_repository.get", "role_repository.get">>]
    ELSE [res |-> "ok", roles |-> R,
          user_roles |-> role_repository_assign_role(UR, user_id, role_id),
          out |-> user_id,
          trace |-> <<"user_repository.get", "role_repository.get",
                      "role_repository.assign_role">>]

(* BaseUserService.assign_role *)
assign_role(U, c, R, UR, user_id, role_id) ==
    IF ~c.role_repository THEN Unconfigured(R, UR)
    ELSE IF user_id \notin DOMAIN U
    THEN [res |-> "NotFoundError", roles |-> R, user_roles |-> UR, out |-> 0,
          trace |-> <<"user_repository.get">>]
    ELSE IF get_role(c, R, UR, role_id).res # "ok"
    THEN [res |-> get_role(c, R, UR, role_id).res, roles |-> R, user_roles |-> UR,
          out |-> 0, trace |-> <<"user_repository.get", "role_repository.get">>]
    ELSE IF role_id \in user_roles_loaded(UR, user_id)
    THEN [res |-> "IntegrityError", roles |-> R, user_roles |-> UR, out |-> 0,
          trace |-> <<"user_repository.get", "role_repository.get">>]
    ELSE [res |-> "ok", roles |-> R,
          user_roles |-> role_repository_assign_role(UR, user_id, role_id),
          out |-> user_id,
          trace |-> <<"user_repository.get", "role_repository.get",
                      "role_repository.assign_role">>]

(* BaseUserService.revoke_role *)
revoke_role(U, c, R, UR, user_id, role_id) ==
    IF ~c.role_repository THEN Unconfigured(R, UR)
    ELSE IF user_id \notin DOMAIN U
    THEN [res |-> "NotFoundError", roles |-> R, user_roles |-> UR, out |-> 0,
          trace |-> <<"user_repository.get">>]
    ELSE IF get_role(c, R, UR, role_id).res # "ok"
    THEN [res |-> get_role(c, R, UR, role_id).res, roles |-> R, user_roles |-> UR,
          out |-> 0, trace |-> <<"user_repository.get", "role_repository.get">>]
    ELSE IF role_id \notin user_roles_loaded(UR, user_id)
    THEN [res |-> "IntegrityError", roles |-> R, user_roles |-> UR, out |-> 0,
          trace |-> <<"user_repository.get", "role_repository.get">>]
    ELSE [res |-> "ok", roles |-> R,
          user_roles |-> role_repository_revoke_role(UR, user_id, role_id),
          out |-> user_id,
          trace |-> <<"user_repository.get", "role_repository.get",
                      "role_repository.revoke_role">>]

----------------------------------------------------------------------------
(* Two requests can be inside add_user at the same time: every await is a  *)
(* point where the event loop may switch to the other request.             *)
Procs == {1, 2}

idle == [at |-> "idle"]

Init ==
    /\ users = <<>>
    /\ nextId = 1
    /\ oauth_accounts = {}
    /\ now = 0
    /\ cfg \in [require_verification_on_registration : BOOLEAN,
                oauth2_repository : BOOLEAN,
                role_repository : BOOLEAN,
                state_secret : StateSecrets,
                auth_backend : {"jwt", "session"}]
    /\ session = 0
    /\ outbox = {}
    /\ roles = <<>>
    /\ user_roles = {}
    /\ pc = [p \in Procs |-> idle]
    /\ last = [op |-> "init", res |-> "ok", uid |-> 0, trace |-> <<>>, arg |-> <<>>]

(* a store write that allocated the primary key nextId consumes it *)
Allocated(U) == IF nextId \in DOMAIN U THEN nextId + 1 ELSE nextId

Register(data, pre, send, post) ==
    /\ nextId <= MaxUsers
    /\ LET r == register(users, nextId, cfg, now, data, pre, send, post)
       IN  /\ users' = r.users
           /\ nextId' = Allocated(r.users)
           /\ last' = [op |-> "register", res |-> r.res, uid |-> r.uid, trace |-> r.trace,
                       arg |-> [email |-> data.email, pre |-> pre, sent |-> r.sent]]
           /\ outbox' = outbox \cup r.sent
    /\ UNCHANGED <<oauth_accounts, now, cfg, session, roles, user_roles, pc>>

AddUser(user, verified, activate) ==
    /\ nextId <= MaxUsers
    /\ LET r == add_user(users, nextId, user, verified, activate)
       IN  /\ users' = r.users
           /\ nextId' = Allocated(r.users)
           /\ last' = [op |-> "add_user", res |-> r.res, uid |-> r.uid, trace |-> <<>>,
                       arg |-> [email |-> user.email]]
    /\ UNCHANGED <<oauth_accounts, now, cfg, session, outbox, roles, user_roles, pc>>

UpdateUser(id, data) ==
    /\ LET r == update_user(users, id, data)
       IN  /\ users' = r.users
           /\ last' = [op |-> "update_user", res |-> r.res, uid |-> r.uid, trace |-> <<>>,
                       arg |-> [id |-> id]]
    /\ UNCHANGED <<nextId, oauth_accounts, now, cfg, session, outbox, roles, user_roles, pc>>

(* the current-user route PATCH, called by the authenticated request_user *)
UpdateCurrentUser(request_user, data) ==
    /\ request_user \in DOMAIN users
    /\ LET r == update_current_user(users, request_user, data)
       IN  /\ users' = r.users
           /\ last' = [op |-> "update_current_user", res |-> r.res, uid |-> r.uid,
                       trace |-> <<>>,
                       arg |-> [request_user |-> request_user, data |-> data]]
    /\ UNCHANGED <<nextId, oauth_accounts, now, cfg, session, outbox, roles, user_roles, pc>>

OAuth2Authorize(ss, state_data) ==
    /\ LET r == oauth2_authorize(cfg, now, ss, state_data)
       IN  last' = [op |-> "oauth2_authorize", res |-> r.res, uid |-> 0, trace |-> r.trace,
                    arg |-> [state |-> r.state]]
    /\ UNCHANGED <<users, nextId, oauth_accounts, now, cfg, session, outbox, roles, user_roles, pc>>

(* the state token st passes every check of the codec at the current time *)
ValidState(st) ==
    /\ st # Garbage /\ st.key = cfg.state_secret
    /\ st.exp > now /\ st.aud = STATE_TOKEN_AUDIENCE

(* no OAuthAccount exists for the provider identity *)
NoAccount(o, ai) ==
    ~\E a \in oauth_accounts : a.oauth_name = o /\ a.account_id = ai

(* oauth2_callback as the login/registration callback route calls it.      *)
(* last.arg records the call: the two policy arguments, whether the state  *)
(* token was valid, whether the provider identity was linked, whether the  *)
(* provider gave an email, whether that email was a user's (exactly, or up *)
(* to casing), and whether a table changed.                                *)
OAuth2Callback(oauth_name, access_token, account_id, account_email, state, ss, associate_by_email, is_verified_by_default, post) ==
    /\ LET r == oauth2_callback(users, oauth_accounts, nextId, cfg, now, oauth_name,
                                access_token, account_id, account_email, state, ss,
                                associate_by_email, is_verified_by_default, FALSE, 0, post)
       IN  /\ DOMAIN r.users \subseteq 1..MaxUsers
           /\ users' = r.users
           /\ nextId' = Allocated(r.users)
           /\ oauth_accounts' = r.oauth
           /\ last' = [op |-> "oauth2_callback", res |-> r.res, uid |-> r.uid,
                       trace |-> r.trace,
                       arg |-> [associate_by_email |-> associate_by_email,
                                is_verified_by_default |-> is_verified_by_default,
                                state_ok |-> ValidState(state),
                                account_known |-> ~NoAccount(oauth_name, account_id),
                                has_email |-> account_email # NoEmail,
                                email_known |->
                                    \E i \in DOMAIN users : users[i].email = account_email,
                                email_taken |->
                                    \E i \in DOMAIN users :
                                        users[i].email[1] = account_email[1],
                                post |-> post,
                                changed |-> r.users # users \/ r.oauth # oauth_accounts]]
    /\ UNCHANGED <<now, cfg, session, outbox, roles, user_roles, pc>>

(* oauth2_callback as the associate callback route calls it *)
OAuth2AssociateCallback(oauth_name, access_token, account_id, account_email, state, ss, associate_user) ==
    /\ LET r == oauth2_callback(users, oauth_accounts, nextId, cfg, now, oauth_name,
                                access_token, account_id, account_email, state, ss,
                                FALSE, FALSE, TRUE, associate_user, "ok")
       IN  /\ users' = r.users
           /\ oauth_accounts' = r.oauth
           /\ last' = [op |-> "oauth2_associate_callback", res |-> r.res, uid |-> r.uid,
                       trace |-> r.trace,
                       arg |-> [associate_user |-> associate_user, sub |-> state.sub,
                                state_ok |-> ValidState(state),
                                changed |-> r.users # users \/ r.oauth # oauth_accounts]]
    /\ UNCHANGED <<nextId, now, cfg, session, outbox, roles, user_roles, pc>>

Authenticate(data, pre, post) ==
    /\ LET r == authenticate(users, data, pre, post)
       IN  /\ users' = r.users
           /\ last' = [op |-> "authenticate", res |-> r.res, uid |-> r.uid,
                       trace |-> r.trace, arg |-> [pre |-> pre, email |-> data.email]]
    /\ UNCHANGED <<nextId, oauth_accounts, now, cfg, session, outbox, roles, user_roles, pc>>

(* the route get_auth_handler registers for a JWT backend *)
LoginJwt(data, pre, post) ==
    /\ cfg.auth_backend = "jwt"
    /\ LET r == login_jwt(users, cfg, data, pre, post)
       IN  /\ users' = r.users
           /\ last' = [op |-> "login_jwt", res |-> r.res, uid |-> r.uid,
                       trace |-> r.trace, arg |-> [pre |-> pre, token |-> r.token]]
    /\ UNCHANGED <<nextId, oauth_accounts, now, cfg, session, outbox, roles, user_roles, pc>>

(* the route get_auth_handler registers for a session backend *)
LoginSession(data, pre, post) ==
    /\ cfg.auth_backend = "session"
    /\ LET r == login_session(users, cfg, session, data, pre, post)
       IN  /\ users' = r.users
           /\ session' = r.session
           /\ last' = [op |-> "login_session", res |-> r.res, uid |-> r.uid,
                       trace |-> r.trace, arg |-> [pre |-> pre]]
    /\ UNCHANGED <<nextId, oauth_accounts, now, cfg, outbox, roles, user_roles, pc>>

Tick ==
    /\ now < MaxTime
    /\ now' = now + 1
    /\ UNCHANGED <<users, nextId, oauth_accounts, cfg, session, outbox, last, roles, user_roles, pc>>

(* more than a day passes: the lifetime of a verify / reset_password token *)
(* and an hour                                                             *)
TickDay ==
    /\ now + TokenLifetime + 1 <= MaxClock
    /\ now' = now + TokenLifetime + 1
    /\ UNCHANGED <<users, nextId, oauth_accounts, cfg, session, outbox, last, roles, user_roles, pc>>

(* the verification route: service.verify(token, request) *)
Verify(tok, post) ==
    /\ LET r == verify(users, tok, now, post)
       IN  /\ users' = r.users
           /\ last' = [op |-> "verify", res |-> r.res, uid |-> r.uid, trace |-> r.trace,
                       arg |-> [tok |-> tok, post |-> post]]
    /\ UNCHANGED <<nextId, oauth_accounts, now, cfg, session, outbox, roles, user_roles, pc>>

(* the forgot-password route: service.initiate_password_reset(data.email) *)
InitiatePasswordReset(email, send) ==
    /\ LET r == initiate_password_reset(users, email, now, send)
       IN  /\ Cardinality(outbox \cup r.sent) <= MaxOutbox
           /\ outbox' = outbox \cup r.sent
           /\ last' = [op |-> "initiate_password_reset", res |-> r.res, uid |-> 0,
                       trace |-> r.trace,
                       arg |-> [email |-> email, sent |-> r.sent, issued |-> r.issued]]
    /\ UNCHANGED <<users, nextId, oauth_accounts, now, cfg, session, roles, user_roles, pc>>

(* the reset-password route: service.reset_password(data.token, data.password) *)
ResetPassword(tok, password) ==
    /\ LET r == reset_password(users, tok, password, now)
       IN  /\ users' = r.users
           /\ last' = [op |-> "reset_password", res |-> r.res, uid |-> r.uid,
                       trace |-> r.trace,
                       arg |-> [tok |-> tok, password |-> password,
                                changed |-> r.users # users]]
    /\ UNCHANGED <<nextId, oauth_accounts, now, cfg, session, outbox, roles, user_roles, pc>>

(* the user-management route: service.delete_user(user_id) *)
DeleteUser(id) ==
    /\ LET r == delete_user(users, id)
       IN  /\ users' = r.users
           /\ last' = [op |-> "delete_user", res |-> r.res, uid |-> r.uid, trace |-> <<>>,
                       arg |-> [id |-> id]]
    /\ UNCHANGED <<nextId, oauth_accounts, now, cfg, session, outbox, roles, user_roles, pc>>

(* the role operations; last.arg records the call and whether the user     *)
(* held the role before it                                                 *)
RoleOp(op, r, arg) ==
    /\ roles' = r.roles
    /\ user_roles' = r.user_roles
    /\ last' = [op |-> op, res |-> r.res, uid |-> r.out, trace |-> r.trace, arg |-> arg]
    /\ UNCHANGED <<users, nextId, oauth_accounts, now, cfg, session, outbox, pc>>

GetRole(id) == RoleOp("get_role", get_role(cfg, roles, user_roles, id), [role_id |-> id])

ListAndCountRoles ==
    RoleOp("list_and_count_roles", list_and_count_roles(cfg, roles, user_roles), <<>>)

GetRoleByName(name) ==
    RoleOp("get_role_by_name", get_role_by_name(cfg, roles, user_roles, name), [name |-> name])

(* the role-management route create_role *)
AddRole(data) == RoleOp("add_role", add_role(cfg, roles, user_roles, data), data)

(* the role-management route update_role: data.id = role_id *)
UpdateRole(role_id, name) ==
    RoleOp("update_role",
           update_role(cfg, roles, user_roles, role_id, [id |-> role_id, name |-> name]),
           [role_id |-> role_id, name |-> name])

(* the role-management route delete_role *)
DeleteRole(role_id) ==
    RoleOp("delete_role", delete_role(cfg, roles, user_roles, role_id), [role_id |-> role_id])

(* the role-management route assign_role *)
AssignRole(user_id, role_id) ==
    RoleOp("assign_role", assign_role(users, cfg, roles, user_roles, user_id, role_id),
           [user_id |-> user_id, role_id |-> role_id,
            held |-> <<user_id, role_id>> \in user_roles])

(* the role-management route revoke_role *)
RevokeRole(user_id, role_id) ==
    RoleOp("revoke_role", revoke_role(users, cfg, roles, user_roles, user_id, role_id),
           [user_id |-> user_id, role_id |-> role_id,
            held |-> <<user_id, role_id>> \in user_roles])

GetByOauthAccount(oauth, account_id) ==
    /\ LET r == get_by_oauth_account(users, oauth_accounts, cfg, oauth, account_id)
       IN  last' = [op |-> "get_by_oauth_account", res |-> r.res, uid |-> r.uid,
                    trace |-> r.trace, arg |-> [account_id |-> account_id]]
    /\ UNCHANGED <<users, nextId, oauth_accounts, now, cfg, session, outbox, roles, user_roles, pc>>

(* add_user as two requests run it side by side.  The method awaits twice, *)
(* user_repository.exists and user_repository.add, and another request can *)
(* run between the two.  pc[p] holds what request p has in hand: the row   *)
(* it is about to write once the pre-check let it through, then its        *)
(* outcome and whether it came from the pre-check or from the write.       *)
AddUserCheck(p, user, verified, activate) ==
    /\ pc[p].at = "idle"
    /\ nextId + Cardinality({q \in Procs : pc[q].at = "passed"}) <= MaxUsers
    /\ IF exists(users, user)
       THEN /\ pc' = [pc EXCEPT ![p] = [at |-> "done", email |-> user.email,
                                        res |-> "IntegrityError", by |-> "pre-check",
                                        uid |-> 0]]
            /\ last' = [op |-> "add_user", res |-> "IntegrityError", uid |-> 0,
                        trace |-> <<"user_repository.exists">>,
                        arg |-> [email |-> user.email]]
       ELSE /\ pc' = [pc EXCEPT ![p] = [at |-> "passed",
                            user |-> [user EXCEPT !.is_verified = verified,
                                                  !.is_active = activate]]]
            /\ UNCHANGED last
    /\ UNCHANGED <<users, nextId, oauth_accounts, now, cfg, session, outbox, roles, user_roles>>

AddUserWrite(p) ==
    /\ pc[p].at = "passed"
    /\ LET r == user_repository_add(users, nextId, pc[p].user)
       IN  /\ users' = r.users
           /\ nextId' = Allocated(r.users)
           /\ pc' = [pc EXCEPT ![p] = [at |-> "done", email |-> pc[p].user.email,
                                       res |-> r.res, by |-> "write", uid |-> r.uid]]
           /\ last' = [op |-> "add_user", res |-> r.res, uid |-> r.uid,
                       trace |-> <<"user_repository.exists", "user_repository.add">>,
                       arg |-> [email |-> pc[p].user.email]]
    /\ UNCHANGED <<oauth_accounts, now, cfg, session, outbox, roles, user_roles>>

(* the request is over; the worker takes the next one *)
AddUserReturn(p) ==
    /\ pc[p].at = "done"
    /\ pc' = [pc EXCEPT ![p] = idle]
    /\ UNCHANGED <<users, nextId, oauth_accounts, now, cfg, session, outbox, roles, user_roles, last>>

(* The auto-creation of _oauth2_callback as concurrent requests run it.    *)
(* The branch awaits user_repository.add, then add_oauth_account, then the *)
(* post-registration hook; between two awaits another request can run, and *)
(* at an await the caller can be cancelled.  CallbackCreate is a login     *)
(* callback that reaches the branch, up to and including the write of the  *)
(* user; pc[p] then holds the id of the new user and the account to attach. *)
CallbackCreate(p, oauth_name, access_token, account_id, account_email, is_verified_by_default) ==
    /\ pc[p].at = "idle"
    /\ LET r == oauth2_callback(users, oauth_accounts, nextId, cfg, now, oauth_name,
                                access_token, account_id, account_email,
                                generate_state_token(<<>>, cfg.state_secret, now),
                                cfg.state_secret, TRUE, is_verified_by_default, FALSE, 0,
                                "ok")
       IN  /\ r.users # users
           /\ DOMAIN r.users \subseteq 1..MaxUsers
           /\ users' = r.users
           /\ nextId' = Allocated(r.users)
           /\ pc' = [pc EXCEPT ![p] = [at |-> "added", uid |-> nextId,
                        d |-> get_access_token(access_token)
                              @@ [oauth_name |-> oauth_name, account_id |-> account_id,
                                  account_email |-> account_email]]]
    /\ UNCHANGED <<oauth_accounts, now, cfg, session, outbox, roles, user_roles, last>>

(* the second await of the branch returns: the account is attached, or the *)
(* repository refuses it                                                   *)
CallbackAttach(p) ==
    /\ pc[p].at = "added"
    /\ LET a == add_oauth_account(oauth_accounts, pc[p].uid, pc[p].d)
       IN  /\ oauth_accounts' = a.oauth
           /\ pc' = [pc EXCEPT ![p] = [at |-> "done", by |-> "create", res |-> a.res,
                                       uid |-> pc[p].uid]]
           /\ last' = [op |-> "oauth2_callback", res |-> a.res,
                       uid |-> IF a.res = "ok" THEN pc[p].uid ELSE 0,
                       trace |-> <<"user_repository.add", "add_oauth_account">>,
                       arg |-> [created |-> pc[p].uid]]
    /\ UNCHANGED <<users, nextId, now, cfg, session, outbox, roles, user_roles>>

(* the caller is cancelled while the request waits at the second await:    *)
(* CancelledError leaves the method, which has no handler for it           *)
CallbackCancel(p) ==
    /\ pc[p].at = "added"
    /\ pc' = [pc EXCEPT ![p] = [at |-> "done", by |-> "create", res |-> "CancelledError",
                                uid |-> pc[p].uid]]
    /\ last' = [op |-> "oauth2_callback", res |-> "CancelledError", uid |-> 0,
                trace |-> <<"user_repository.add">>, arg |-> [created |-> pc[p].uid]]
    /\ UNCHANGED <<users, nextId, oauth_accounts, now, cfg, session, outbox, roles, user_roles>>

CallbackReturn(p) ==
    /\ pc[p].at = "done"
    /\ pc' = [pc EXCEPT ![p] = idle]
    /\ UNCHANGED <<users, nextId, oauth_accounts, now, cfg, session, outbox, roles, user_roles, last>>

(* assign_role as concurrent requests run it.  The method awaits get_user  *)
(* and get_role, tests the membership on the relation it loaded and then   *)
(* awaits role_repository.assign_role; between the test and the write      *)
(* another request can run.  AssignRoleCheck is the method up to the test. *)
AssignRoleCheck(p, user_id, role_id) ==
    /\ pc[p].at = "idle"
    /\ LET r == assign_role(users, cfg, roles, user_roles, user_id, role_id)
       IN  IF r.res # "ok"
           THEN /\ pc' = [pc EXCEPT ![p] = [at |-> "done", res |-> r.res, by |-> "pre-check",
                                            user_id |-> user_id, role_id |-> role_id]]
                /\ last' = [op |-> "assign_role", res |-> r.res, uid |-> 0,
                            trace |-> r.trace,
                            arg |-> [user_id |-> user_id, role_id |-> role_id]]
           ELSE /\ pc' = [pc EXCEPT ![p] = [at |-> "checked", user_id |-> user_id,
                                            role_id |-> role_id]]
                /\ UNCHANGED last
    /\ UNCHANGED <<users, nextId, oauth_accounts, now, cfg, session, outbox, roles, user_roles>>

(* role_repository.assign_role of a request that passed the test *)
AssignRoleWrite(p) ==
    /\ pc[p].at = "checked"
    /\ user_roles' = role_repository_assign_role(user_roles, pc[p].user_id, pc[p].role_id)
    /\ pc' = [pc EXCEPT ![p] = [at |-> "done", res |-> "ok", by |-> "write",
                                user_id |-> pc[p].user_id, role_id |-> pc[p].role_id]]
    /\ last' = [op |-> "assign_role", res |-> "ok", uid |-> pc[p].user_id,
                trace |-> <<"user_repository.get", "role_repository.get",
                            "role_repository.assign_role">>,
                arg |-> [user_id |-> pc[p].user_id, role_id |-> pc[p].role_id]]
    /\ UNCHANGED <<users, nextId, oauth_accounts, now, cfg, session, outbox, roles>>

AssignRoleReturn(p) ==
    /\ pc[p].at = "done"
    /\ pc' = [pc EXCEPT ![p] = idle]
    /\ UNCHANGED <<users, nextId, oauth_accounts, now, cfg, session, outbox, roles, user_roles, last>>

(* the OAuth2 callback routes; last.arg records the token the response    *)
(* carries and whether a table changed                                     *)
OAuth2HandlerCallback(oauth_name, access_token, account_id, account_email, state, ss, associate_by_email, is_verified_by_default) ==
    /\ LET r == oauth2_handler_callback(users, oauth_accounts, nextId, cfg, now, session,
                    oauth_name, access_token, account_id, account_email, state, ss,
                    associate_by_email, is_verified_by_default)
       IN  /\ DOMAIN r.users \subseteq 1..MaxUsers
           /\ users' = r.users
           /\ nextId' = Allocated(r.users)
           /\ oauth_accounts' = r.oauth
           /\ session' = r.session
           /\ last' = [op |-> "oauth2.callback", res |-> r.res, uid |-> r.uid,
                       trace |-> r.trace,
                       arg |-> [token |-> r.token,
                                changed |-> r.users # users \/ r.oauth # oauth_accounts]]
    /\ UNCHANGED <<now, cfg, outbox, roles, user_roles, pc>>

OAuth2AssociateHandlerCallback(user_id, oauth_name, access_token, account_id, account_email, state, ss) ==
    /\ LET r == oauth2_associate_handler_callback(users, oauth_accounts, nextId, cfg, now,
                    session, user_id, oauth_name, access_token, account_id, account_email,
                    state, ss)
       IN  /\ users' = r.users
           /\ oauth_accounts' = r.oauth
           /\ session' = r.session
           /\ last' = [op |-> "oauth2-associate.callback", res |-> r.res, uid |-> r.uid,
                       trace |-> r.trace,
                       arg |-> [token |-> r.token, user_id |-> user_id,
                                changed |-> r.users # users \/ r.oauth # oauth_accounts]]
    /\ UNCHANGED <<nextId, now, cfg, outbox, roles, user_roles, pc>>

----------------------------------------------------------------------------
(* Inputs *)

(* the attribute sets an update object may carry *)
UpdateData ==
    [email : Emails] \cup [password_hash : Passwords]

(* what a route hands to oauth2_authorize as state_data: nothing (login),  *)
(* or the id of the authenticated user (associate)                         *)
StateData(ids) == {<<>>} \cup {[sub |-> ToString(i)] : i \in ids}

(* what a client can echo as state at time t: a token some authorize call  *)
(* issued at or before t, a token signed with a key of the client's own, a *)
(* verification token of the service, or no JWT at all                     *)
StateInputs(ss, t, ids) ==
    {generate_state_token(sd, ss, t0) : sd \in StateData(ids), t0 \in 0..t}
    \cup {generate_state_token(<<>>, "forged", t), generate_token(1, "verify", t), Garbage}

Ids == DOMAIN users

(* a token signed with a key that is not the service's *)
Forged(tok) == [tok EXCEPT !.key = "forged"]

(* what a client can send as token at time t: a token the notifier was     *)
(* handed, a state token of the OAuth2 routes, a token signed with a key   *)
(* of the client's own, or no JWT at all                                   *)
TokenInputs(t) ==
    outbox \cup {generate_state_token([sub |-> "1"], cfg.state_secret, t),
                 Forged(generate_token(1, "verify", t)), Garbage}

Credentials == [email : Emails, password : Passwords]

(* Account creation and update: every operation that writes an identifier *)
InitAccounts ==
    /\ Init
    /\ cfg.role_repository
    /\ cfg.state_secret = secret
    /\ cfg.auth_backend = "jwt"

Next ==
    \/ \E e \in Emails, pre \in HookOutcomes, send \in HookOutcomes, post \in HookOutcomes :
            Register([email |-> e, password |-> "p1"], pre, send, post)
    \/ \E e \in Emails, v \in BOOLEAN : AddUser(user_model(e, hash("p1")), v, TRUE)
    \/ \E id \in 1..MaxUsers, d \in UpdateData : UpdateUser(id, d)
    \/ \E o \in OAuthNames, ae \in Emails \cup {NoEmail}, abe \in BOOLEAN :
            OAuth2Callback(o, "t1", "x", ae, generate_state_token(<<>>, cfg.state_secret, now),
                           cfg.state_secret, abe, FALSE, "ok")

Spec == InitAccounts /\ [][Next]_vars

(* Password authentication and the two login routes *)
InitAuth ==
    /\ Init
    /\ cfg.role_repository
    /\ cfg.oauth2_repository
    /\ cfg.state_secret = secret

NextAuth ==
    \/ \E e \in Emails, p \in Passwords :
            Register([email |-> e, password |-> p], "ok", "ok", "ok")
    \/ \E e \in Emails, p \in Passwords, v \in BOOLEAN :
            AddUser(user_model(e, legacy_hash(p)), v, TRUE)
    \/ \E d \in Credentials, pre \in PreLoginOutcomes, post \in HookOutcomes :
            Authenticate(d, pre, post)
    \/ \E d \in Credentials, pre \in PreLoginOutcomes, post \in HookOutcomes :
            LoginJwt(d, pre, post)
    \/ \E d \in Credentials, pre \in PreLoginOutcomes, post \in HookOutcomes :
            LoginSession(d, pre, post)

SpecAuth == InitAuth /\ [][NextAuth]_vars

(* Verification, password reset and the JWT login route *)
InitTokens ==
    /\ Init
    /\ cfg.role_repository
    /\ cfg.require_verification_on_registration
    /\ cfg.oauth2_repository
    /\ cfg.state_secret = secret
    /\ cfg.auth_backend = "jwt"

NextTokens ==
    \/ \E e \in Emails : Register([email |-> e, password |-> "p1"], "ok", "ok", "ok")
    \/ \E tok \in TokenInputs(now), post \in HookOutcomes : Verify(tok, post)
    \/ \E e \in Emails : InitiatePasswordReset(e, "ok")
    \/ \E tok \in TokenInputs(now) : ResetPassword(tok, "p2")
    \/ \E d \in Credentials : LoginJwt(d, "true", "ok")
    \/ \E id \in 1..MaxUsers : DeleteUser(id)
    \/ TickDay

SpecTokens == InitTokens /\ [][NextTokens]_vars

(* The OAuth2 login/registration callback on top of local registrations *)
InitOAuth ==
    /\ Init
    /\ cfg.role_repository
    /\ ~cfg.require_verification_on_registration
    /\ cfg.oauth2_repository
    /\ cfg.auth_backend = "jwt"

NextOAuth ==
    \/ \E e \in Emails : Register([email |-> e, password |-> "p1"], "ok", "ok", "ok")
    \/ \E sd \in StateData(Ids) : OAuth2Authorize(cfg.state_secret, sd)
    \/ \E o \in OAuthNames, ae \in Emails \cup {NoEmail},
          abe \in BOOLEAN, ivd \in BOOLEAN :
            \E st \in StateInputs(cfg.state_secret, now, {}) :
                OAuth2Callback(o, "t1", "x", ae, st, cfg.state_secret, abe, ivd, "ok")
    \/ Tick

SpecOAuth == InitOAuth /\ [][NextOAuth]_vars

(* The OAuth2 associate callback of authenticated users, the OAuth2 routes *)
(* built with a state secret of their own                                  *)
InitAssociate ==
    /\ InitOAuth
    /\ cfg.state_secret # secret

NextAssociate ==
    \/ \E e \in Emails : Register([email |-> e, password |-> "p1"], "ok", "ok", "ok")
    \/ \E sd \in StateData(Ids) : OAuth2Authorize(cfg.state_secret, sd)
    \/ \E o \in OAuthNames, ai \in AccountIds, ae \in Emails \cup {NoEmail},
          u \in Ids \cup {0} :
            \E st \in StateInputs(cfg.state_secret, now, Ids) :
                OAuth2AssociateCallback(o, "t1", ai, ae, st, cfg.state_secret, u)
    \/ Tick

SpecAssociate == InitAssociate /\ [][NextAssociate]_vars

(* Both OAuth2 callbacks with valid state tokens: the links users build up *)
InitLinking ==
    /\ InitOAuth
    /\ cfg.state_secret = secret

NextLinking ==
    \/ \E e \in Emails : Register([email |-> e, password |-> "p1"], "ok", "ok", "ok")
    \/ \E o \in OAuthNames, at \in AccessTokens, ai \in AccountIds, ae \in Emails,
          abe \in BOOLEAN :
            OAuth2Callback(o, at, ai, ae, generate_state_token(<<>>, cfg.state_secret, now),
                           cfg.state_secret, abe, FALSE, "ok")
    \/ \E o \in OAuthNames, ai \in AccountIds, ae \in Emails, u \in Ids :
            OAuth2AssociateCallback(o, "t1", ai, ae,
                generate_state_token([sub |-> ToString(u)], cfg.state_secret, now),
                cfg.state_secret, u)

SpecLinking == InitLinking /\ [][NextLinking]_vars

(* Role management, and the optional repositories present or absent *)
InitRoles ==
    /\ Init
    /\ ~cfg.require_verification_on_registration
    /\ cfg.state_secret = secret
    /\ cfg.auth_backend = "jwt"

NextRoles ==
    \/ \E e \in {<<"a", 0>>, <<"b", 0>>} :
            Register([email |-> e, password |-> "p1"], "ok", "ok", "ok")
    \/ \E id \in RoleIds : GetRole(id)
    \/ ListAndCountRoles
    \/ \E n \in RoleNames : GetRoleByName(n)
    \/ \E id \in RoleIds, n \in RoleNames : AddRole([id |-> id, name |-> n])
    \/ \E id \in RoleIds, n \in RoleNames : UpdateRole(id, n)
    \/ \E id \in RoleIds : DeleteRole(id)
    \/ \E u \in 1..MaxUsers, r \in RoleIds : AssignRole(u, r)
    \/ \E u \in 1..MaxUsers, r \in RoleIds : RevokeRole(u, r)
    \/ \E o \in OAuthNames, ai \in AccountIds : GetByOauthAccount(o, ai)
    \/ OAuth2Authorize(cfg.state_secret, <<>>)
    \/ \E o \in OAuthNames, ae \in {<<"a", 0>>, NoEmail} :
            OAuth2Callback(o, "t1", "x", ae, generate_state_token(<<>>, cfg.state_secret, now),
                           cfg.state_secret, TRUE, FALSE, "ok")
    \/ \E o \in OAuthNames, u \in Ids \cup {0} :
            OAuth2AssociateCallback(o, "t1", "y", <<"a", 0>>,
                generate_state_token([sub |-> ToString(u)], cfg.state_secret, now),
                cfg.state_secret, u)

SpecRoles == InitRoles /\ [][NextRoles]_vars

(* Two registrations side by side *)
InitRace ==
    /\ Init
    /\ cfg.role_repository /\ cfg.oauth2_repository
    /\ cfg.state_secret = secret
    /\ cfg.auth_backend = "jwt"

NextRace ==
    \/ \E p \in Procs, e \in Emails :
            AddUserCheck(p, user_model(e, hash("p1")), verify_on_registration(cfg), TRUE)
    \/ \E p \in Procs : AddUserWrite(p)
    \/ \E p \in Procs : AddUserReturn(p)

SpecRace == InitRace /\ [][NextRace]_vars

(* OAuth2 auto-creation, request by request *)
InitCreate ==
    /\ InitOAuth
    /\ cfg.state_secret = secret

NextCreate ==
    \/ \E p \in Procs, o \in OAuthNames, ai \in AccountIds, ae \in Emails, ivd \in BOOLEAN :
            CallbackCreate(p, o, "t1", ai, ae, ivd)
    \/ \E p \in Procs : CallbackAttach(p)
    \/ \E p \in Procs : CallbackCancel(p)
    \/ \E p \in Procs : CallbackReturn(p)

SpecCreate == InitCreate /\ [][NextCreate]_vars

(* what the current-user route may be sent: an id of the sender's choice   *)
(* with a new e-mail or a new password, which may be the empty string      *)
ProfileData ==
    [id : 1..MaxUsers, email : Emails] \cup [id : 1..MaxUsers, password_hash : Passwords \cup {""}]

(* Users changing their own records *)
InitProfile ==
    /\ InitRoles
    /\ cfg.oauth2_repository

NextProfile ==
    \/ \E e \in Emails, v \in BOOLEAN : AddUser(user_model(e, hash("p1")), v, TRUE)
    \/ \E u \in 1..MaxUsers, d \in ProfileData : UpdateCurrentUser(u, d)
    \/ \E id \in 1..MaxUsers : DeleteUser(id)

SpecProfile == InitProfile /\ [][NextProfile]_vars

(* StarliteUsersConfig, the pydantic model that configures the plugin.  An *)
(* argument is a label: Unset when the keyword is not passed, None, or the *)
(* name of the object passed.                                              *)
Unset == "unset"
None == "None"
AuthStrategies == {"session", "jwt"}
BackendConfigs == {"CookieBackendConfig", "MemoryBackendConfig"}

(* the arguments a construction may be given; "basic" is no auth_strategy, *)
(* "dict" no backend config                                                *)
ConfigArgs ==
    [auth_exclude_paths : {Unset, "paths"},
     auth_strategy : AuthStrategies \cup {"basic", Unset},
     route_handlers : {Unset, "handlers"},
     session_backend_config : BackendConfigs \cup {Unset, None, "dict"},
     user_model : {Unset, "User"}]

(* the fields whose own validation fails: a required one that is not      *)
(* passed, or a value that is not of the declared type                     *)
field_errors(a) ==
    {f \in {"auth_strategy", "route_handlers", "user_model"} : a[f] = Unset}
    \cup (IF a.auth_strategy \notin AuthStrategies \cup {Unset} THEN {"auth_strategy"} ELSE {})
    \cup (IF a.session_backend_config \notin BackendConfigs \cup {Unset, None}
          THEN {"session_backend_config"} ELSE {})

(* the values the root validator is handed: the fields that validated,     *)
(* defaults filled in                                                      *)
validated_values(a) ==
    LET d == [a EXCEPT !.auth_exclude_paths = IF @ = Unset THEN "[]" ELSE @,
                       !.session_backend_config = IF @ = Unset THEN None ELSE @]
    IN  [f \in DOMAIN d \ field_errors(a) |-> d[f]]

(* values.get(key) *)
values_get(values, key) == IF key \in DOMAIN values THEN values[key] ELSE None

(* Variant: the root validator accepts every combination *)
validate_auth_backend_lenient(values) == {}

(* StarliteUsersConfig.validate_auth_backend: the errors it raises *)
validate_auth_backend(values) ==
    IF /\ values_get(values, "auth_strategy") = "session"
       /\ values_get(values, "session_backend_config") = None
    THEN {"__root__"}
    ELSE {}

(* StarliteUsersConfig: the object built, or the ValidationError that     *)
(* collects the errors of the fields and of the root validator             *)
StarliteUsersConfig(a) ==
    LET values == validated_values(a)
        errors == field_errors(a) \cup validate_auth_backend(values)
    IN  IF errors = {}
        THEN [res |-> "ok", config |-> values, errors |-> {}]
        ELSE [res |-> "ValidationError", config |-> <<>>, errors |-> errors]

(* the application builds a configuration *)
Construct(a) ==
    /\ LET r == StarliteUsersConfig(a)
       IN  last' = [op |-> "StarliteUsersConfig", res |-> r.res, uid |-> 0, trace |-> <<>>,
                    arg |-> [given |-> a, config |-> r.config, errors |-> r.errors]]
    /\ UNCHANGED <<users, nextId, oauth_accounts, now, cfg, session, outbox, roles, user_roles, pc>>

(* Configurations being built *)
InitConfig ==
    /\ InitRoles
    /\ cfg.oauth2_repository /\ cfg.role_repository

NextConfig ==
    \E a \in ConfigArgs : Construct(a)

SpecConfig == InitConfig /\ [][NextConfig]_vars

(* Role assignment, request by request *)
InitAssign ==
    /\ InitRoles
    /\ cfg.oauth2_repository

NextAssign ==
    \/ \E e \in {<<"a", 0>>, <<"b", 0>>} :
            Register([email |-> e, password |-> "p1"], "ok", "ok", "ok")
    \/ \E id \in RoleIds, n \in RoleNames : AddRole([id |-> id, name |-> n])
    \/ \E p \in Procs, u \in 1..MaxUsers, r \in RoleIds : AssignRoleCheck(p, u, r)
    \/ \E p \in Procs : AssignRoleWrite(p)
    \/ \E p \in Procs : AssignRoleReturn(p)

SpecAssign == InitAssign /\ [][NextAssign]_vars

(* The OAuth2 callback routes and password authentication over users that *)
(* are active or not                                                       *)
InitRoutes ==
    /\ Init
    /\ ~cfg.require_verification_on_registration
    /\ cfg.role_repository /\ cfg.oauth2_repository
    /\ cfg.state_secret = secret

NextRoutes ==
    \/ \E e \in {<<"a", 0>>, <<"b", 0>>}, act \in BOOLEAN :
            AddUser(user_model(e, hash("p1")), TRUE, act)
    \/ \E id \in 1..MaxUsers, act \in BOOLEAN : UpdateUser(id, [is_active |-> act])
    \/ \E o \in OAuthNames, ai \in AccountIds, ae \in {<<"a", 0>>, <<"b", 0>>, NoEmail},
          abe \in BOOLEAN :
            OAuth2HandlerCallback(o, "t1", ai, ae,
                generate_state_token(<<>>, cfg.state_secret, now), cfg.state_secret,
                abe, FALSE)
    \/ \E u \in Ids, o \in OAuthNames, ai \in AccountIds :
            OAuth2AssociateHandlerCallback(u, o, "t1", ai, <<"a", 0>>,
                generate_state_token([sub |-> ToString(u)], cfg.state_secret, now),
                cfg.state_secret)
    \/ \E d \in Credentials : Authenticate(d, "true", "ok")

SpecRoutes == InitRoutes /\ [][NextRoutes]_vars

----------------------------------------------------------------------------
(* Properties.  A property of an operation is stated for every input the   *)
(* operation can be called with in the current state; the witness names a  *)
(* state in which the operation was actually called in that case.          *)

(* C1: when a user whose identifier equals e up to casing exists, register *)
(* (its pre-registration hook passing) and add_user with e fail with       *)
(* IntegrityError and leave the user table as it was; when no such user    *)
(* exists, register (its notifier and hooks passing) and add_user succeed  *)
(* and add exactly the new user, under the identifier as spelled.          *)
C1_DuplicateIdentifierConflict ==
    \A e \in Emails, p \in Passwords, send \in HookOutcomes, post \in HookOutcomes,
       v \in BOOLEAN, a \in BOOLEAN :
        LET r == register(users, nextId, cfg, now, [email |-> e, password |-> p],
                          "ok", send, post)
            d == add_user(users, nextId, user_model(e, hash(p)), v, a)
            taken == \E i \in DOMAIN users : users[i].email[1] = e[1]
        IN  /\ taken => /\ r.res = "IntegrityError" /\ r.users = users
                        /\ d.res = "IntegrityError" /\ d.users = users
            /\ (~taken /\ nextId \notin DOMAIN users) =>
                    /\ d.res = "ok" /\ d.uid = nextId
                    /\ DOMAIN d.users = DOMAIN users \cup {nextId}
                    /\ \A i \in DOMAIN users : d.users[i] = users[i]
                    /\ d.users[nextId].email = e
                    /\ (send = "ok" /\ post = "ok") =>
                            /\ r.res = "ok" /\ r.uid = nextId
                            /\ DOMAIN r.users = DOMAIN users \cup {nextId}
                            /\ \A i \in DOMAIN users : r.users[i] = users[i]
                            /\ r.users[nextId].email = e

(* C1 witness: a registration was refused because a user with another      *)
(* casing of the same identifier exists                                    *)
C1_Witness ==
    /\ last.op = "register" /\ last.res = "IntegrityError"
    /\ \E i \in DOMAIN users :
            users[i].email # last.arg.email /\ users[i].email[1] = last.arg.email[1]

(* C2: no two distinct users have identifiers that are equal when compared *)
(* case-insensitively                                                      *)
C2_IdentifierUniqueIgnoringCase ==
    \A i \in DOMAIN users : \A j \in DOMAIN users :
        i # j => users[i].email[1] # users[j].email[1]

(* C2 witness: with two users stored, the OAuth2 auto-creation of a user   *)
(* under another casing of a stored identifier was refused by the store    *)
C2_Witness ==
    /\ Cardinality(DOMAIN users) = 2
    /\ last.op = "oauth2_callback" /\ last.res = "IntegrityError"
    /\ last.trace[Len(last.trace)] = "user_repository.add"

Called(tr, ev) == \E k \in DOMAIN tr : tr[k] = ev

(* the login/registration callback on the current store *)
LoginCallback(o, at, ai, ae, st, abe, ivd, post) ==
    oauth2_callback(users, oauth_accounts, nextId, cfg, now, o, at, ai, ae, st,
                    cfg.state_secret, abe, ivd, FALSE, 0, post)

(* C3: an OAuth2 callback with a valid state token, for a provider         *)
(* identity that has no OAuthAccount, with an email that is the email of   *)
(* an existing user and associate_by_email = false, fails with the 400     *)
(* "User already exists." error and changes neither table.                 *)
C3_NoAssociationWithoutPolicy ==
    (/\ last.op = "oauth2_callback"
     /\ last.arg.state_ok /\ ~last.arg.account_known
     /\ last.arg.email_known /\ ~last.arg.associate_by_email)
    => /\ last.res = "400 User already exists."
       /\ ~last.arg.changed

(* C4: the OAuth2 callback with a valid state token, for a provider        *)
(* identity that has no OAuthAccount, with an email that is the email of   *)
(* an existing user and associate_by_email = true, succeeds, returns that  *)
(* user, adds exactly one OAuthAccount, owned by that user and carrying    *)
(* the provider's data, leaves the user table as it was and never calls    *)
(* the post-registration hook.                                             *)
C4_AssociateByEmail ==
    \A o \in OAuthNames, at \in AccessTokens, ai \in AccountIds, ae \in Emails,
       ivd \in BOOLEAN, post \in HookOutcomes :
        \A st \in StateInputs(cfg.state_secret, now, DOMAIN users) :
            LET r == LoginCallback(o, at, ai, ae, st, TRUE, ivd, post)
                row == [user_id |-> r.uid, oauth_name |-> o, access_token |-> at,
                        account_id |-> ai, account_email |-> ae,
                        refresh_token |-> <<"refresh", at>>]
            IN  (ValidState(st) /\ NoAccount(o, ai)
                 /\ \E i \in DOMAIN users : users[i].email = ae)
                => /\ r.res = "ok"
                   /\ r.uid \in DOMAIN users /\ users[r.uid].email = ae
                   /\ r.users = users
                   /\ row \notin oauth_accounts
                   /\ r.oauth = oauth_accounts \cup {row}
                   /\ ~Called(r.trace, "post_registration_hook")
                   /\ ~Called(r.trace, "user_repository.add")

(* C4 witness: a callback with associate_by_email = true linked the new    *)
(* provider identity to the existing user with that email                  *)
C4_Witness ==
    /\ last.op = "oauth2_callback" /\ last.res = "ok"
    /\ last.arg.associate_by_email /\ last.arg.email_known
    /\ last.arg.state_ok /\ ~last.arg.account_known /\ last.arg.changed
    /\ \E a \in oauth_accounts :
            a.user_id = last.uid /\ a.account_email = users[last.uid].email

(* C5: an OAuth2 callback with a valid state token, for a provider         *)
(* identity that has no OAuthAccount and an email no existing user has     *)
(* (in any casing), creates a user, active and with is_verified =          *)
(* is_verified_by_default, attaches the new OAuthAccount to it and then    *)
(* calls the post-registration hook, for both values of                    *)
(* associate_by_email.                                                     *)
C5_AutoCreation ==
    (/\ last.op = "oauth2_callback"
     /\ last.arg.state_ok /\ ~last.arg.account_known
     /\ last.arg.has_email /\ ~last.arg.email_taken
     /\ last.arg.post = "ok")
    => /\ last.res = "ok"
       /\ last.uid \in DOMAIN users
       /\ users[last.uid].is_active
       /\ users[last.uid].is_verified = last.arg.is_verified_by_default
       /\ \E a \in oauth_accounts : a.user_id = last.uid
       /\ Len(last.trace) >= 3
       /\ SubSeq(last.trace, Len(last.trace) - 2, Len(last.trace))
            = <<"user_repository.add", "add_oauth_account", "post_registration_hook">>

(* C6: in the login/registration callback every state token that is        *)
(* malformed, wrongly signed, expired or of another audience yields a      *)
(* 400-class error, and neither table changes.                             *)
C6_InvalidStateIsBadRequest ==
    (last.op = "oauth2_callback" /\ ~last.arg.state_ok)
    => /\ last.res \in BadRequest
       /\ ~last.arg.changed

(* C7: in the associate callback, a state token that does not decode, or   *)
(* that carries no sub claim equal to str(id) of the authenticated user    *)
(* (a token of the login authorize flow carries none), yields a 400-class  *)
(* error, and neither table changes.                                       *)
C7_AssociateStateBoundToCaller ==
    (/\ last.op = "oauth2_associate_callback"
     /\ ~last.arg.state_ok \/ last.arg.sub # ToString(last.arg.associate_user))
    => /\ last.res \in BadRequest
       /\ ~last.arg.changed

(* the number of credential verifications (real or dummy) in a call trace *)
Verifications(tr) ==
    Cardinality({k \in DOMAIN tr : tr[k] \in {"verify", "dummy_verify"}})

(* C8: with hooks that return, authenticate returns a user if and only if  *)
(* a user whose identifier equals the given one up to casing exists, the   *)
(* supplied password verifies against that user's stored hash and the      *)
(* pre-login hook returned true, and the user returned is that user; in    *)
(* every other case it returns None.                                       *)
C8_AuthenticateDecision ==
    \A d \in Credentials, pre \in {"true", "false"} :
        LET r == authenticate(users, d, pre, "ok")
            good == {i \in DOMAIN users :
                        /\ users[i].email[1] = d.email[1]
                        /\ users[i].password_hash.pw = d.password}
        IN  /\ r.res \in {"user", "None"}
            /\ r.res = "user" <=> (good # {} /\ pre = "true")
            /\ r.res = "user" => r.uid \in good
            /\ r.res = "None" => r.uid = 0

(* C8 witness: authenticate returned the user stored under another casing  *)
(* of the identifier that was supplied                                     *)
C8_Witness ==
    /\ last.op = "authenticate" /\ last.res = "user"
    /\ last.uid \in DOMAIN users
    /\ users[last.uid].email # last.arg.email
    /\ users[last.uid].email[1] = last.arg.email[1]

(* C9: with a pre-login hook that returns, a login whose identifier no     *)
(* user has and a login with a user's identifier and a wrong password both *)
(* make authenticate return None and make the login route of the           *)
(* configured backend raise the same NotAuthorized error, after exactly    *)
(* one credential verification: the dummy one when the user is absent, the *)
(* real one when the password is wrong.                                    *)
C9_UniformLoginFailure ==
    \A d \in Credentials, pre \in {"true", "false"}, post \in HookOutcomes :
        LET a == authenticate(users, d, pre, post)
            j == login_jwt(users, [cfg EXCEPT !.auth_backend = "jwt"], d, pre, post)
            s == login_session(users, [cfg EXCEPT !.auth_backend = "session"], session,
                               d, pre, post)
            known == {i \in DOMAIN users : users[i].email[1] = d.email[1]}
            absent == known = {}
            wrong == known # {} /\ \A i \in known : users[i].password_hash.pw # d.password
        IN  (absent \/ wrong) =>
                /\ a.res = "None"
                /\ j.res = "NotAuthorized: login failed, invalid input"
                /\ s.res = j.res
                /\ Verifications(a.trace) = 1
                /\ Verifications(j.trace) = 1
                /\ Verifications(s.trace) = 1
                /\ absent <=> Called(a.trace, "dummy_verify")
                /\ wrong <=> Called(a.trace, "verify")
                /\ a.users = users /\ j.users = users /\ s.users = users

(* C9 witness: the JWT login route refused an identifier no user has, the  *)
(* dummy verification having run, while users are stored                   *)
C9_Witness ==
    /\ last.op = "login_jwt"
    /\ last.res = "NotAuthorized: login failed, invalid input"
    /\ last.arg.pre = "true"
    /\ Called(last.trace, "dummy_verify")
    /\ users # <<>>

(* C10: every call of authenticate evaluates the pre-login hook first,     *)
(* then looks the user up, then checks the password (really or with the    *)
(* dummy), and produces its result only after these three; when the        *)
(* pre-login hook raises, authenticate fails with the hook's failure       *)
(* after the hook alone: no lookup, no password check, no write.           *)
C10_AuthenticateOrder ==
    \A d \in Credentials, pre \in PreLoginOutcomes, post \in HookOutcomes :
        LET r == authenticate(users, d, pre, post)
        IN  /\ pre = "raise" =>
                    /\ r.res = "HookRaised"
                    /\ r.trace = <<"pre_login_hook">>
                    /\ r.users = users
            /\ pre # "raise" =>
                    /\ Len(r.trace) >= 3
                    /\ r.trace[1] = "pre_login_hook"
                    /\ r.trace[2] = "get_one"
                    /\ r.trace[3] \in {"verify", "dummy_verify"}
                    /\ \A k \in 4..Len(r.trace) :
                            r.trace[k] \in {"_update", "post_login_hook"}

(* C10 witness: the pre-login hook returned false for a stored user, and   *)
(* authenticate returned None only after the lookup and the password check *)
C10_Witness ==
    /\ last.op = "authenticate" /\ last.res = "None"
    /\ last.arg.pre = "false"
    /\ Len(last.trace) >= 3
    /\ last.trace[3] = "verify"

(* C11: a JWT login whose credentials authenticate a user with             *)
(* is_verified = false is refused with PermissionDenied "not verified",    *)
(* which is not the NotAuthorized of a failed authentication, and the      *)
(* response carries no token.                                              *)
C11_UnverifiedLoginForbidden ==
    \A d \in Credentials :
        LET a == authenticate(users, d, "true", "ok")
            j == login_jwt(users, [cfg EXCEPT !.auth_backend = "jwt"], d, "true", "ok")
        IN  (a.res = "user" /\ a.users[a.uid].is_verified = FALSE)
            => /\ j.res = "PermissionDenied: not verified"
               /\ j.res # "NotAuthorized: login failed, invalid input"
               /\ j.token = NoSub

(* C11 witness: the JWT login route refused the correct credentials of an  *)
(* unverified user                                                         *)
C11_Witness ==
    /\ last.op = "login_jwt" /\ last.res = "PermissionDenied: not verified"
    /\ last.arg.token = NoSub
    /\ \E i \in DOMAIN users : ~users[i].is_verified

(* C12: with require_verification_on_registration = true, from every       *)
(* reachable store: a successful register leaves the new user with         *)
(* is_verified = false and hands the notifier one verify token for it; a   *)
(* JWT login with the registered credentials then authenticates but is     *)
(* refused as not verified, with no token; verify with the dispatched      *)
(* token, at any time before its expiry, sets is_verified; the same login  *)
(* after that succeeds and issues a token for the user.                    *)
C12_VerificationWorkflow ==
    cfg.require_verification_on_registration =>
    \A e \in Emails, p \in Passwords :
        LET d == [email |-> e, password |-> p]
            r == register(users, nextId, cfg, now, d, "ok", "ok", "ok")
            l1 == login_jwt(r.users, cfg, d, "true", "ok")
        IN  r.res = "ok" =>
            /\ r.uid \in DOMAIN r.users /\ r.uid \notin DOMAIN users
            /\ r.users[r.uid].is_verified = FALSE
            /\ Cardinality(r.sent) = 1
            /\ \A tok \in r.sent : tok.aud = "verify" /\ tok.sub = ToString(r.uid)
            /\ authenticate(r.users, d, "true", "ok").res = "user"
            /\ authenticate(r.users, d, "true", "ok").uid = r.uid
            /\ l1.res = "PermissionDenied: not verified" /\ l1.token = NoSub
            /\ \A tok \in r.sent, t1 \in {now, now + 1, now + TokenLifetime - 1} :
                LET v == verify(l1.users, tok, t1, "ok")
                    l2 == login_jwt(v.users, cfg, d, "true", "ok")
                IN  /\ v.res = "ok" /\ v.uid = r.uid
                    /\ v.users[r.uid].is_verified = TRUE
                    /\ l2.res = "ok" /\ l2.uid = r.uid /\ l2.token = ToString(r.uid)

(* C12 witness: a user registered under required verification, whose       *)
(* verify token was dispatched and who has been verified since, logged in  *)
(* and was issued a token                                                  *)
C12_Witness ==
    /\ cfg.require_verification_on_registration
    /\ last.op = "login_jwt" /\ last.res = "ok"
    /\ last.arg.token = ToString(last.uid)
    /\ last.uid \in DOMAIN users /\ users[last.uid].is_verified
    /\ \E tok \in outbox : tok.aud = "verify" /\ tok.sub = ToString(last.uid)

(* the issue times of the tokens under consideration at time t: the start *)
(* of the service and t itself                                            *)
IssueTimes(t) == {0, t}

(* the claim sets a caller may hand to generate_state_token, an audience   *)
(* of the caller's own among them                                          *)
StateClaims ==
    StateData(1..MaxUsers)
    \cup {[aud |-> a] : a \in {"verify", "reset_password"}}
    \cup {[aud |-> a, sub |-> "1"] : a \in {"verify", "reset_password"}}

(* C13: a token is accepted only by the workflow of its audience.  For     *)
(* every subject and issue time: reset_password rejects a verify token,    *)
(* verify rejects a reset_password token, both reject every OAuth2 state   *)
(* token, and both OAuth2 callbacks reject verify and reset_password       *)
(* tokens as state (whichever secret the OAuth2 routes were built with);   *)
(* a rejection changes no table.  generate_state_token gives every token   *)
(* the OAuth2 state audience, whatever claims it is called with.           *)
C13_AudienceIsolation ==
    \A u \in uuid4..MaxUsers, t0 \in IssueTimes(now) :
        LET tv == generate_token(u, "verify", t0)
            tr == generate_token(u, "reset_password", t0)
        IN  /\ \A p \in Passwords :
                LET r == reset_password(users, tv, p, now)
                IN  r.res = "InvalidTokenException" /\ r.users = users
            /\ \A post \in HookOutcomes :
                LET v == verify(users, tr, now, post)
                IN  v.res = "InvalidTokenException" /\ v.users = users
            /\ \A sd \in StateClaims, ss \in StateSecrets :
                LET ts == generate_state_token(sd, ss, t0)
                    v == verify(users, ts, now, "ok")
                    r == reset_password(users, ts, "p2", now)
                IN  /\ ts.aud = STATE_TOKEN_AUDIENCE
                    /\ ts.aud \notin {"verify", "reset_password"}
                    /\ v.res = "InvalidTokenException" /\ v.users = users
                    /\ r.res = "InvalidTokenException" /\ r.users = users
            /\ \A tok \in {tv, tr}, ss \in StateSecrets, abe \in BOOLEAN :
                LET l == oauth2_callback(users, oauth_accounts, nextId, cfg, now, "google",
                                         "t1", "x", <<"b", 0>>, tok, ss, abe, FALSE, FALSE, 0,
                                         "ok")
                IN  l.res # "ok" /\ l.users = users /\ l.oauth = oauth_accounts
            /\ \A tok \in {tv, tr}, ss \in StateSecrets :
                LET a == oauth2_callback(users, oauth_accounts, nextId, cfg, now, "google",
                                         "t1", "x", <<"b", 0>>, tok, ss, FALSE, FALSE, TRUE, u,
                                         "ok")
                IN  u \in DOMAIN users =>
                        (a.res # "ok" /\ a.users = users /\ a.oauth = oauth_accounts)

(* C13 witness: verify was called with an unexpired reset_password token   *)
(* of an existing user, issued by the service, and rejected it             *)
C13_Witness ==
    /\ last.op = "verify" /\ last.res = "InvalidTokenException"
    /\ last.arg.tok \in outbox
    /\ last.arg.tok.aud = "reset_password" /\ last.arg.tok.exp > now
    /\ parse_user_id(last.arg.tok.sub) \in DOMAIN users

(* C14: a verify or reset_password token expires 24 hours after it was     *)
(* issued, and verify / reset_password called with a token of their own    *)
(* audience, signed by the service, at any time past that expiry fail with *)
(* InvalidTokenException and leave the user table as it was.               *)
C14_ExpiredTokenRejected ==
    \A u \in 1..MaxUsers, t0 \in IssueTimes(now) :
        LET tv == generate_token(u, "verify", t0)
            tr == generate_token(u, "reset_password", t0)
        IN  /\ tv.exp = t0 + 24 /\ tr.exp = t0 + 24
            /\ \A t1 \in {now, tv.exp + 1, tv.exp + TokenLifetime} :
                t1 > tv.exp =>
                    /\ \A post \in HookOutcomes :
                        LET v == verify(users, tv, t1, post)
                        IN  v.res = "InvalidTokenException" /\ v.users = users
                    /\ \A p \in Passwords :
                        LET r == reset_password(users, tr, p, t1)
                        IN  r.res = "InvalidTokenException" /\ r.users = users

(* C14 witness: verify was called with the verify token dispatched for a   *)
(* user who still exists, after the token's expiry, and rejected it        *)
C14_Witness ==
    /\ last.op = "verify" /\ last.res = "InvalidTokenException"
    /\ last.arg.tok \in outbox
    /\ last.arg.tok.aud = "verify" /\ last.arg.tok.exp < now
    /\ parse_user_id(last.arg.tok.sub) \in DOMAIN users
    /\ ~users[parse_user_id(last.arg.tok.sub)].is_verified

(* C15: verify called with an unexpired verify token signed by the         *)
(* service, whose subject is the id of no existing user, fails with        *)
(* InvalidTokenException (not with NotFoundError), leaves the user table   *)
(* as it was and does not call the post-verification hook.                 *)
C15_VerifyUnknownSubject ==
    \A u \in uuid4..(MaxUsers + 1), t0 \in IssueTimes(now), post \in HookOutcomes :
        LET tok == generate_token(u, "verify", t0)
            v == verify(users, tok, now, post)
        IN  (u \notin DOMAIN users /\ tok.exp > now)
            => /\ v.res = "InvalidTokenException"
               /\ v.users = users
               /\ ~Called(v.trace, "post_verification_hook")

(* C15 witness: verify rejected the unexpired verify token that had been   *)
(* dispatched for a user who was deleted since                             *)
C15_Witness ==
    /\ last.op = "verify" /\ last.res = "InvalidTokenException"
    /\ last.arg.tok \in outbox
    /\ last.arg.tok.aud = "verify" /\ last.arg.tok.exp > now
    /\ parse_user_id(last.arg.tok.sub) \notin DOMAIN users
    /\ Called(last.trace, "user_repository.update")

(* C16: verify called with an unexpired verify token signed by the service *)
(* for an existing user sets is_verified = true on the user whose id is    *)
(* the token's subject and on no other, then calls the post-verification   *)
(* hook, once; when the hook raises, verify fails with the hook's failure  *)
(* and is_verified stays true.                                             *)
C16_VerifySetsFlag ==
    \A u \in DOMAIN users, t0 \in IssueTimes(now), post \in HookOutcomes :
        LET tok == generate_token(u, "verify", t0)
            v == verify(users, tok, now, post)
        IN  tok.exp > now
            => /\ DOMAIN v.users = DOMAIN users
               /\ v.users[u].is_verified = TRUE
               /\ \A i \in DOMAIN users \ {u} : v.users[i] = users[i]
               /\ Len(v.trace) = 3
               /\ v.trace[2] = "user_repository.update"
               /\ v.trace[3] = "post_verification_hook"
               /\ post = "ok" => (v.res = "ok" /\ v.uid = u)
               /\ post = "raise" => v.res = "HookRaised"

(* C16 witness: verify set is_verified on a user that was unverified, and  *)
(* the post-verification hook then raised                                  *)
C16_Witness ==
    /\ last.op = "verify" /\ last.res = "HookRaised" /\ last.arg.post = "raise"
    /\ last.arg.tok \in outbox
    /\ parse_user_id(last.arg.tok.sub) \in DOMAIN users
    /\ users[parse_user_id(last.arg.tok.sub)].is_verified
    /\ \E i \in DOMAIN users : ~users[i].is_verified

(* C17: with a notifier that returns, initiate_password_reset returns None *)
(* without an error whether or not a user has the given e-mail (compared   *)
(* case-insensitively).  When one has, exactly one token is generated, of  *)
(* audience reset_password and with that user's id as subject, and it is   *)
(* handed to the notifier; when none has, one token is generated and       *)
(* dropped and the notifier is not called.  The user table is left as it   *)
(* was in both cases.                                                      *)
C17_SilentPasswordResetRequest ==
    \A e \in Emails :
        LET r == initiate_password_reset(users, e, now, "ok")
            known == {i \in DOMAIN users : users[i].email[1] = e[1]}
        IN  /\ r.res = "None"
            /\ r.users = users
            /\ Cardinality(r.issued) = 1
            /\ \A tok \in r.issued : tok.aud = "reset_password" /\ tok.key = secret
            /\ known # {} =>
                    /\ r.sent = r.issued
                    /\ \A tok \in r.sent : \E i \in known : tok.sub = ToString(i)
                    /\ Called(r.trace, "send_password_reset_token")
            /\ known = {} =>
                    /\ r.sent = {}
                    /\ \A tok \in r.issued : parse_user_id(tok.sub) \notin DOMAIN users
                    /\ ~Called(r.trace, "send_password_reset_token")

(* C17 witness: a password reset was requested under another casing of a   *)
(* user's e-mail, and the token for that user was handed to the notifier   *)
C17_Witness ==
    /\ last.op = "initiate_password_reset" /\ last.res = "None"
    /\ \E i \in DOMAIN users :
        /\ users[i].email # last.arg.email
        /\ users[i].email[1] = last.arg.email[1]
        /\ \E tok \in last.arg.sent : tok.sub = ToString(i) /\ tok \in outbox

(* the tokens reset_password is considered with: verify and reset_password *)
(* tokens of the service for every subject and issue time, an OAuth2 state *)
(* token, a token signed with another key, and no JWT at all               *)
ResetTokens ==
    {generate_token(u, aud, t0) : u \in uuid4..(MaxUsers + 1),
                                  aud \in {"verify", "reset_password"},
                                  t0 \in IssueTimes(now)}
    \cup {generate_state_token([sub |-> "1"], secret, now),
          Forged(generate_token(1, "reset_password", now)), Garbage}

(* tok is an unexpired reset_password token signed by the service whose    *)
(* subject is the id of an existing user                                   *)
ValidResetToken(tok) ==
    /\ tok # Garbage /\ tok.key = secret
    /\ tok.aud = "reset_password" /\ tok.exp > now
    /\ tok.sub # NoSub
    /\ \E i \in DOMAIN users : tok.sub = ToString(i)

(* C18: reset_password with a valid reset_password token replaces the      *)
(* password hash of the user whose id is the token's subject and of no     *)
(* other, so that authenticate (its pre-login hook returning true) then    *)
(* returns that user for the new password and None for every other one;    *)
(* with any other token (not signed by the service, expired, of another    *)
(* audience, or for a user that does not exist) it fails with              *)
(* InvalidTokenException and leaves the user table as it was.              *)
C18_ResetPassword ==
    \A tok \in ResetTokens, p \in Passwords :
        LET r == reset_password(users, tok, p, now)
        IN  /\ ValidResetToken(tok) =>
                LET u == CHOOSE i \in DOMAIN users : tok.sub = ToString(i)
                    id == r.users[u].email
                    new == authenticate(r.users, [email |-> id, password |-> p],
                                        "true", "ok")
                IN  /\ r.res = "None"
                    /\ DOMAIN r.users = DOMAIN users
                    /\ \A i \in DOMAIN users \ {u} : r.users[i] = users[i]
                    /\ r.users[u].email = users[u].email
                    /\ new.res = "user" /\ new.uid = u
                    /\ \A q \in Passwords \ {p} :
                        authenticate(r.users, [email |-> id, password |-> q],
                                     "true", "ok").res = "None"
            /\ ~ValidResetToken(tok) =>
                /\ r.res = "InvalidTokenException"
                /\ r.users = users

(* C18 witness: reset_password, called with the reset token dispatched for *)
(* a user, replaced that user's password hash by the hash of a password    *)
(* the user did not have                                                   *)
C18_Witness ==
    /\ last.op = "reset_password" /\ last.res = "None"
    /\ last.arg.tok \in outbox /\ last.arg.changed
    /\ last.uid \in DOMAIN users
    /\ authenticate(users, [email |-> users[last.uid].email,
                            password |-> last.arg.password], "true", "ok").res = "user"

(* C19: for both values of require_verification_on_registration, the user  *)
(* that register persists has is_active = true and is_verified equal to    *)
(* the negation of the setting (whatever the notifier and the              *)
(* post-registration hook do afterwards).                                  *)
C19_RegisteredFlags ==
    \A e \in Emails, p \in Passwords, b \in BOOLEAN,
       send \in HookOutcomes, post \in HookOutcomes :
        LET c == [cfg EXCEPT !.require_verification_on_registration = b]
            r == register(users, nextId, c, now, [email |-> e, password |-> p],
                          "ok", send, post)
            taken == \E i \in DOMAIN users : users[i].email[1] = e[1]
        IN  /\ (~taken /\ nextId \notin DOMAIN users) =>
                    /\ DOMAIN r.users = DOMAIN users \cup {nextId}
                    /\ r.users[nextId].email = e
                    /\ r.users[nextId].is_active = TRUE
                    /\ r.users[nextId].is_verified = ~b
            /\ \A i \in DOMAIN r.users \ DOMAIN users :
                    r.users[i].is_active = TRUE /\ r.users[i].is_verified = ~b

(* C19 witness: with verification not required, register persisted a user *)
(* that is active and verified                                            *)
C19_Witness ==
    /\ ~cfg.require_verification_on_registration
    /\ last.op = "register" /\ last.res = "ok"
    /\ last.uid \in DOMAIN users
    /\ users[last.uid].is_active /\ users[last.uid].is_verified
    /\ last.arg.sent = {}

(* C20: when the pre-registration hook raises, register fails with the     *)
(* hook's failure after the hook alone: the user table is as it was, no    *)
(* verification token is generated or handed to the notifier, and the      *)
(* post-registration hook is not called.                                   *)
C20_PreRegistrationHookAborts ==
    \A e \in Emails, p \in Passwords, send \in HookOutcomes, post \in HookOutcomes :
        LET r == register(users, nextId, cfg, now, [email |-> e, password |-> p],
                          "raise", send, post)
        IN  /\ r.res = "HookRaised"
            /\ r.users = users
            /\ r.sent = {}
            /\ r.trace = <<"pre_registration_hook">>

(* C20 witness: the pre-registration hook refused a registration whose     *)
(* identifier was free                                                     *)
C20_Witness ==
    /\ last.op = "register" /\ last.res = "HookRaised" /\ last.arg.pre = "raise"
    /\ last.arg.sent = {}
    /\ nextId <= MaxUsers
    /\ ~\E i \in DOMAIN users : users[i].email[1] = last.arg.email[1]

(* C21: when the verification notifier or the post-registration hook       *)
(* raises after the user was persisted, register reports that failure and  *)
(* the new row stays in the user table next to the rows that were there;   *)
(* a later register of the same identifier, in any casing, ends with the   *)
(* conflict and writes nothing.                                            *)
C21_NoRollbackAfterPersist ==
    \A e \in Emails, p \in Passwords, send \in HookOutcomes, post \in HookOutcomes :
        LET r == register(users, nextId, cfg, now, [email |-> e, password |-> p],
                          "ok", send, post)
            free == ~\E i \in DOMAIN users : users[i].email[1] = e[1]
            notifier_fails == cfg.require_verification_on_registration /\ send = "raise"
        IN  (free /\ nextId \notin DOMAIN users /\ (notifier_fails \/ post = "raise")) =>
                /\ r.res = (IF notifier_fails THEN "NotifierRaised" ELSE "HookRaised")
                /\ DOMAIN r.users = DOMAIN users \cup {nextId}
                /\ r.users[nextId].email = e
                /\ \A i \in DOMAIN users : r.users[i] = users[i]
                /\ \A e2 \in Emails, p2 \in Passwords,
                      send2 \in HookOutcomes, post2 \in HookOutcomes :
                        e2[1] = e[1] =>
                            LET r2 == register(r.users, nextId + 1, cfg, now,
                                               [email |-> e2, password |-> p2],
                                               "ok", send2, post2)
                            IN  r2.res = "IntegrityError" /\ r2.users = r.users

(* C21 witness: the notifier raised in a registration, and the user that   *)
(* registration added is in the table                                      *)
C21_Witness ==
    /\ last.op = "register" /\ last.res = "NotifierRaised" /\ last.arg.pre = "ok"
    /\ last.arg.sent # {}
    /\ \E i \in DOMAIN users : users[i].email = last.arg.email /\ i = nextId - 1

(* C22: for both values of require_verification_on_registration, a         *)
(* register that persists the user hands a token to the verification       *)
(* notifier exactly when verification is required; that token is the only  *)
(* one, has audience "verify" and the new user's id as subject; the        *)
(* notifier is called after add_user and before the post-registration      *)
(* hook.  A register that persists nothing hands out no token.             *)
C22_VerificationOnRegistration ==
    \A e \in Emails, p \in Passwords, b \in BOOLEAN,
       pre \in HookOutcomes, send \in HookOutcomes, post \in HookOutcomes :
        LET c == [cfg EXCEPT !.require_verification_on_registration = b]
            r == register(users, nextId, c, now, [email |-> e, password |-> p],
                          pre, send, post)
            persisted == nextId \in DOMAIN r.users \ DOMAIN users
            tr == r.trace
        IN  /\ persisted =>
                /\ (r.sent # {}) <=> b
                /\ Called(tr, "send_verification_token") <=> b
                /\ \A tok \in r.sent :
                        /\ r.sent = {tok}
                        /\ tok.aud = "verify"
                        /\ tok.sub = ToString(nextId)
                        /\ tok.exp > now
                /\ \A i \in DOMAIN tr, j \in DOMAIN tr :
                        /\ (tr[i] = "add_user" /\ tr[j] = "send_verification_token") => i < j
                        /\ (tr[i] = "send_verification_token"
                                /\ tr[j] = "post_registration_hook") => i < j
                        /\ (tr[i] = "add_user" /\ tr[j] = "post_registration_hook") => i < j
                /\ Called(tr, "add_user")
                /\ r.res = "ok" => Called(tr, "post_registration_hook")
            /\ ~persisted => (r.sent = {} /\ ~Called(tr, "send_verification_token"))

(* C22 witness: with verification required, a registration succeeded and   *)
(* its verification token for the new user went out between add_user and   *)
(* the post-registration hook                                              *)
C22_Witness ==
    /\ cfg.require_verification_on_registration
    /\ last.op = "register" /\ last.res = "ok" /\ last.uid \in DOMAIN users
    /\ \E tok \in last.arg.sent : tok.aud = "verify" /\ tok.sub = ToString(last.uid)
    /\ last.trace = <<"pre_registration_hook", "add_user", "send_verification_token",
                      "post_registration_hook">>

(* C24: for every authenticate call that finds its user, whatever the      *)
(* hooks do short of the pre-login hook raising: when the password manager *)
(* reports an upgraded hash (the stored hash is of a deprecated scheme and *)
(* the password matched) the user's stored password_hash is that hash on   *)
(* return; otherwise the stored password_hash is as it was.  No other      *)
(* attribute and no other row changes.                                     *)
C24_HashUpgradePersisted ==
    \A d \in Credentials, pre \in {"true", "false"}, post \in HookOutcomes :
        \A u \in DOMAIN users :
            users[u].email[1] = d.email[1] =>
                LET r == authenticate(users, d, pre, post)
                    h == users[u].password_hash
                    upgraded == h.scheme = "deprecated" /\ h.pw = d.password
                IN  /\ DOMAIN r.users = DOMAIN users
                    /\ upgraded =>
                            /\ verify_and_update(d.password, h).new_hash # NoHash
                            /\ r.users[u].password_hash
                                    = verify_and_update(d.password, h).new_hash
                            /\ r.users[u].password_hash.scheme = "preferred"
                            /\ r.users[u].password_hash.pw = d.password
                    /\ ~upgraded => r.users[u].password_hash = h
                    /\ r.users[u] = [users[u] EXCEPT !.password_hash = r.users[u].password_hash]
                    /\ \A i \in DOMAIN users \ {u} : r.users[i] = users[i]

(* C24 witness: an authenticate call wrote the upgraded hash of its user *)
C24_Witness ==
    /\ last.op = "authenticate" /\ last.res = "user"
    /\ Called(last.trace, "_update")
    /\ users[last.uid].password_hash.scheme = "preferred"

(* C25: an authenticate call that returns the user called the post-login   *)
(* hook exactly once, as its last step, after the password check and any   *)
(* hash write-back; an authenticate call that returns None (unknown user,  *)
(* wrong password, or pre-login hook false) never called it.               *)
C25_PostLoginHook ==
    \A d \in Credentials, pre \in PreLoginOutcomes, post \in HookOutcomes :
        LET r == authenticate(users, d, pre, post)
            tr == r.trace
            calls == {i \in DOMAIN tr : tr[i] = "post_login_hook"}
            known == \E i \in DOMAIN users : users[i].email[1] = d.email[1]
            matches == \E i \in DOMAIN users :
                            /\ users[i].email[1] = d.email[1]
                            /\ users[i].password_hash.pw = d.password
        IN  /\ r.res = "user" =>
                /\ calls = {Len(tr)}
                /\ \A i \in DOMAIN tr : tr[i] \in {"verify", "_update"} => i < Len(tr)
                /\ Called(tr, "verify")
            /\ r.res = "None" => calls = {}
            /\ (pre # "raise" /\ (~known \/ ~matches \/ pre = "false")) =>
                    (r.res = "None" /\ calls = {})
            /\ (pre = "true" /\ matches /\ post = "ok") => r.res = "user"

(* C25 witness: an authenticate call returned the user with the post-login *)
(* hook as the last of its calls                                           *)
C25_Witness ==
    /\ last.op = "authenticate" /\ last.res = "user" /\ last.uid \in DOMAIN users
    /\ last.trace[Len(last.trace)] = "post_login_hook"
    /\ last.arg.pre = "true"

(* C28: a login callback with a valid state token for a provider identity  *)
(* that already has an OAuthAccount returns the owner of that account and  *)
(* stores the access and refresh tokens of the provider's response in      *)
(* exactly that account: the user table, the number of accounts and every  *)
(* other account (of the owner or of anyone else) are as they were, the    *)
(* email lookup, add_oauth_account and the post-registration hook are not  *)
(* reached; and this is so whatever email the provider reports, the email  *)
(* of a different local user included.                                     *)
C28_KnownIdentityUpdatesTokens ==
    \A o \in OAuthNames, at \in AccessTokens, ai \in AccountIds, ae \in Emails,
       abe \in BOOLEAN, ivd \in BOOLEAN, post \in HookOutcomes :
        \A acc \in oauth_accounts :
            (acc.oauth_name = o /\ acc.account_id = ai /\ acc.user_id \in DOMAIN users) =>
                LET r == oauth2_callback(users, oauth_accounts, nextId, cfg, now, o, at, ai, ae,
                            generate_state_token(<<>>, cfg.state_secret, now),
                            cfg.state_secret, abe, ivd, FALSE, 0, post)
                IN  /\ r.res = "ok"
                    /\ r.uid = acc.user_id
                    /\ r.users = users
                    /\ Cardinality(r.oauth) = Cardinality(oauth_accounts)
                    /\ \E n \in r.oauth :
                            /\ n.user_id = acc.user_id
                            /\ n.oauth_name = o /\ n.account_id = ai
                            /\ n.access_token = at
                            /\ n.refresh_token = <<"refresh", at>>
                            /\ r.oauth \ {n} = oauth_accounts \ {acc}
                    /\ ~Called(r.trace, "get_user_by")
                    /\ ~Called(r.trace, "add_oauth_account")
                    /\ ~Called(r.trace, "user_repository.add")
                    /\ ~Called(r.trace, "post_registration_hook")

(* C28 witness: a login callback refreshed the tokens of the account of    *)
(* its owner while the email the provider reported was another user's      *)
C28_Witness ==
    /\ last.op = "oauth2_callback" /\ last.res = "ok"
    /\ last.arg.account_known /\ last.arg.changed /\ last.arg.email_known
    /\ Called(last.trace, "update_oauth_account")
    /\ \E a \in oauth_accounts, i \in DOMAIN users :
            /\ a.user_id = last.uid /\ i # last.uid
            /\ a.account_email = users[i].email
            /\ a.access_token = "t2"
    /\ \E a \in oauth_accounts : a.user_id = last.uid /\ a.access_token = "t1"

(* C29: in every reachable state no two OAuthAccounts have the same        *)
(* (oauth_name, account_id); and an associate callback with a valid state  *)
(* token of its caller, for a provider identity linked to another user,    *)
(* ends with the conflict and leaves both tables as they were.             *)
C29_ProviderIdentityUnique ==
    /\ \A a \in oauth_accounts, b \in oauth_accounts :
            (a.oauth_name = b.oauth_name /\ a.account_id = b.account_id) => a = b
    /\ \A o \in OAuthNames, at \in AccessTokens, ai \in AccountIds, ae \in Emails,
          u \in DOMAIN users :
            (\E acc \in oauth_accounts :
                acc.oauth_name = o /\ acc.account_id = ai /\ acc.user_id # u) =>
                LET r == oauth2_callback(users, oauth_accounts, nextId, cfg, now, o, at, ai, ae,
                            generate_state_token([sub |-> ToString(u)], cfg.state_secret, now),
                            cfg.state_secret, FALSE, FALSE, TRUE, u, "ok")
                IN  /\ r.res = "IntegrityError"
                    /\ r.oauth = oauth_accounts
                    /\ r.users = users

(* C29 witness: an associate callback of a user that holds no account, for *)
(* an identity another user owned, ended with the conflict                 *)
C29_Witness ==
    /\ last.op = "oauth2_associate_callback" /\ last.res = "IntegrityError"
    /\ last.arg.state_ok /\ ~last.arg.changed
    /\ oauth_accounts # {}
    /\ \A a \in oauth_accounts : a.user_id # last.arg.associate_user
    /\ last.arg.associate_user \in DOMAIN users

(* C30: in every reachable state each user holds at most one OAuthAccount  *)
(* per oauth_name.                                                         *)
C30_OneAccountPerProvider ==
    \A a \in oauth_accounts, b \in oauth_accounts :
        (a.user_id = b.user_id /\ a.oauth_name = b.oauth_name) => a = b

C27_UnconfiguredFailsFirst ==
    LET c == [cfg EXCEPT !.role_repository = FALSE]
        k == [cfg EXCEPT !.oauth2_repository = FALSE]
        RoleFailure(x) ==
            /\ x.res = "ImproperlyConfigured" /\ x.trace = <<>>
            /\ x.roles = roles /\ x.user_roles = user_roles
        OAuthFailure(x) ==
            /\ x.res = "ImproperlyConfigured" /\ x.trace = <<>>
            /\ x.users = users /\ x.oauth = oauth_accounts
    IN  /\ \A id \in RoleIds, n \in RoleNames, u \in 1..MaxUsers :
            /\ RoleFailure(get_role(c, roles, user_roles, id))
            /\ RoleFailure(get_role_by_name(c, roles, user_roles, n))
            /\ RoleFailure(list_and_count_roles(c, roles, user_roles))
            /\ RoleFailure(add_role(c, roles, user_roles, [id |-> id, name |-> n]))
            /\ RoleFailure(update_role(c, roles, user_roles, id, [id |-> id, name |-> n]))
            /\ RoleFailure(delete_role(c, roles, user_roles, id))
            /\ RoleFailure(assign_role(users, c, roles, user_roles, u, id))
            /\ RoleFailure(revoke_role(users, c, roles, user_roles, u, id))
        /\ \A o \in OAuthNames, ai \in AccountIds :
            LET g == get_by_oauth_account(users, oauth_accounts, k, o, ai)
            IN  g.res = "ImproperlyConfigured" /\ g.trace = <<>>
        /\ \A sd \in StateData(1..MaxUsers) :
            LET z == oauth2_authorize(k, now, cfg.state_secret, sd)
            IN  z.res = "ImproperlyConfigured" /\ z.trace = <<>>
        /\ \A o \in OAuthNames, at \in AccessTokens, ai \in AccountIds,
              ae \in {<<"a", 0>>, NoEmail}, u \in 0..MaxUsers, assoc \in BOOLEAN :
            LET st == generate_state_token(IF assoc THEN [sub |-> ToString(u)] ELSE <<>>,
                                           cfg.state_secret, now)
                d == [oauth_name |-> o, access_token |-> at, account_id |-> ai,
                      account_email |-> ae, refresh_token |-> <<"refresh", at>>]
            IN  /\ OAuthFailure(oauth2_callback(users, oauth_accounts, nextId, k, now, o, at,
                        ai, ae, st, cfg.state_secret, TRUE, FALSE, assoc, u, "ok"))
                /\ OAuthFailure(_oauth2_callback(users, oauth_accounts, nextId, k, now, o, ai,
                        ae, TRUE, FALSE, st, cfg.state_secret, d, "ok"))
                /\ OAuthFailure(_oauth2_associate_callback(users, oauth_accounts, k, now, u,
                        st, cfg.state_secret, d))

(* C27 witness: on a service built with neither repository, assign_role    *)
(* for a stored user ended with ImproperlyConfigured                       *)
C27_Witness ==
    /\ ~cfg.role_repository /\ ~cfg.oauth2_repository
    /\ last.op = "assign_role" /\ last.res = "ImproperlyConfigured"
    /\ last.trace = <<>>
    /\ last.arg.user_id \in DOMAIN users
    /\ roles = <<>> /\ user_roles = {} /\ oauth_accounts = {}

(* C23: when two add_user calls of concurrent registrations hold rows for  *)
(* the same identifier (up to casing), both having passed the existence    *)
(* pre-check, then whatever the order of their writes: the table never     *)
(* holds two users of that identifier, the two calls never both succeed,   *)
(* and once one has written, the write of the other ends with the          *)
(* IntegrityError of the repository and stores nothing.                    *)
C23_ConcurrentRegistration ==
    /\ \A i \in DOMAIN users, j \in DOMAIN users :
            users[i].email[1] = users[j].email[1] => i = j
    /\ \A p \in Procs, q \in Procs :
            (/\ p # q
             /\ pc[p].at = "done" /\ pc[p].by = "write"
             /\ pc[q].at = "done" /\ pc[q].by = "write"
             /\ pc[p].email[1] = pc[q].email[1])
            => ~(pc[p].res = "ok" /\ pc[q].res = "ok")
    /\ \A p \in Procs, q \in Procs :
            (/\ p # q
             /\ pc[p].at = "passed"
             /\ pc[q].at = "done" /\ pc[q].by = "write" /\ pc[q].res = "ok"
             /\ pc[q].uid \in DOMAIN users
             /\ pc[p].user.email[1] = pc[q].email[1])
            => LET r == user_repository_add(users, nextId, pc[p].user)
               IN  r.res = "IntegrityError" /\ r.users = users

(* C23 witness: both calls passed the pre-check for one identifier in      *)
(* different casings; one created the user, the other was refused at its   *)
(* write                                                                   *)
C23_Witness ==
    \E p \in Procs, q \in Procs :
        /\ p # q
        /\ pc[p].at = "done" /\ pc[p].by = "write" /\ pc[p].res = "ok"
        /\ pc[q].at = "done" /\ pc[q].by = "write" /\ pc[q].res = "IntegrityError"
        /\ pc[p].email[1] = pc[q].email[1] /\ pc[p].email # pc[q].email
        /\ Cardinality({i \in DOMAIN users : users[i].email[1] = pc[p].email[1]}) = 1

(* C31: in the login/registration callback and in the associate callback,  *)
(* when the provider reports no email the call ends with the 400 "OAuth    *)
(* account without email" whatever the state token is (valid, expired,     *)
(* forged, of another audience, no JWT): the state token is not decoded,   *)
(* no sub-flow step runs, and the user and OAuthAccount tables are as they *)
(* were.                                                                   *)
C31_NoEmailFailsFirst ==
    \A o \in OAuthNames, at \in AccessTokens, ai \in AccountIds,
       abe \in BOOLEAN, ivd \in BOOLEAN, assoc \in BOOLEAN, u \in 0..MaxUsers :
        \A st \in StateInputs(cfg.state_secret, now, DOMAIN users) :
            LET r == oauth2_callback(users, oauth_accounts, nextId, cfg, now, o, at, ai,
                                     NoEmail, st, cfg.state_secret, abe, ivd, assoc, u, "ok")
            IN  /\ r.res = "400 OAuth account without email"
                /\ r.res \in BadRequest
                /\ r.users = users
                /\ r.oauth = oauth_accounts
                /\ r.trace = <<"get_access_token", "get_id_email">>
                /\ ~Called(r.trace, "decode_jwt")

(* C31 witness: a login callback without an email and with a state token   *)
(* that would not have passed ended with the 400 of the missing email      *)
C31_Witness ==
    /\ last.op = "oauth2_callback" /\ ~last.arg.has_email /\ ~last.arg.state_ok
    /\ last.res = "400 OAuth account without email"
    /\ ~last.arg.changed
    /\ users # <<>>

(* C32: once a login callback that created a user is over without having   *)
(* succeeded (its add_oauth_account was refused, or its caller was         *)
(* cancelled after the user was added), the user it created is not in the  *)
(* store without an OAuthAccount of its own.                               *)
C32_AutoCreationAtomic ==
    \A p \in Procs :
        (pc[p].at = "done" /\ pc[p].by = "create" /\ pc[p].res # "ok") =>
            (pc[p].uid \in DOMAIN users =>
                \E a \in oauth_accounts : a.user_id = pc[p].uid)

(* C33: a token that verify accepts is accepted by verify again at every   *)
(* later time before its expiry, with the same user and the same table     *)
(* (the user stays verified); a token that reset_password accepts is       *)
(* accepted again at every later time before its expiry and the second     *)
(* call overwrites the password hash with the hash of its own password;    *)
(* and a reset token is still accepted after the user's password was       *)
(* changed through update_user.                                            *)
C33_TokensNotConsumed ==
    \A tok \in TokenInputs(now) :
        LET later == {t \in now..(now + TokenLifetime) : t < tok.exp}
            v1 == verify(users, tok, now, "ok")
        IN  /\ v1.res = "ok" =>
                \A t2 \in later, post \in HookOutcomes :
                    LET v2 == verify(v1.users, tok, t2, post)
                    IN  /\ v2.res = (IF post = "raise" THEN "HookRaised" ELSE "ok")
                        /\ v2.users = v1.users
                        /\ v2.users[v1.uid].is_verified
                        /\ post = "ok" => v2.uid = v1.uid
            /\ \A p1 \in Passwords, p2 \in Passwords :
                LET r1 == reset_password(users, tok, p1, now)
                IN  r1.res = "None" =>
                        /\ later # {}
                        /\ \A t2 \in later :
                            LET r2 == reset_password(r1.users, tok, p2, t2)
                                ch == update_user(r1.users, r1.uid, [password_hash |-> p2])
                                r3 == reset_password(ch.users, tok, p1, t2)
                            IN  /\ r2.res = "None" /\ r2.uid = r1.uid
                                /\ r2.users[r1.uid].password_hash.pw = p2
                                /\ ch.res = "ok"
                                /\ ch.users[r1.uid].password_hash.pw = p2
                                /\ r3.res = "None"
                                /\ r3.users[r1.uid].password_hash.pw = p1

(* C33 witness: reset_password accepted the one reset token ever issued    *)
(* for a user whose password hash an earlier reset had already replaced    *)
C33_Witness ==
    /\ last.op = "reset_password" /\ last.res = "None" /\ ~last.arg.changed
    /\ last.uid \in DOMAIN users
    /\ users[last.uid].password_hash.pw = "p2"
    /\ {tok \in outbox : tok.aud = "reset_password" /\ tok.sub = ToString(last.uid)}
            = {last.arg.tok}

(* C34: on a service with the session backend, whatever the session held:  *)
(* when authenticate returns a user, verified or not, login_session        *)
(* succeeds and the session holds that user's id (where login_jwt, on a    *)
(* JWT backend, refuses the unverified user and issues no token); when     *)
(* authenticate returns None, login_session clears the session as its last *)
(* step and ends with the NotAuthorized error.                             *)
C34_SessionLogin ==
    \A d \in Credentials, pre \in {"true", "false"}, post \in HookOutcomes,
       sess \in 0..MaxUsers :
        LET c == [cfg EXCEPT !.auth_backend = "session"]
            j == [cfg EXCEPT !.auth_backend = "jwt"]
            a == authenticate(users, d, pre, post)
            r == login_session(users, c, sess, d, pre, post)
            t == login_jwt(users, j, d, pre, post)
        IN  /\ a.res = "user" =>
                /\ r.res = "ok" /\ r.uid = a.uid
                /\ r.session = a.uid
                /\ r.trace[Len(r.trace)] = "set_session"
                /\ ~r.users[a.uid].is_verified =>
                        (t.res = "PermissionDenied: not verified" /\ t.token = NoSub)
            /\ a.res = "None" =>
                /\ r.res = "NotAuthorized: login failed, invalid input"
                /\ r.session = 0
                /\ r.trace[Len(r.trace)] = "clear_session"
            /\ r.users = a.users

(* C34 witness: a session login of an unverified user succeeded and the     *)
(* session holds the id of that user                                       *)
C34_Witness ==
    /\ last.op = "login_session" /\ last.res = "ok"
    /\ last.uid \in DOMAIN users /\ ~users[last.uid].is_verified
    /\ session = last.uid

(* C35: on either backend, the login callback route puts no user id in the *)
(* session and answers with no token for a user that is not active: when   *)
(* the service callback returns such a user the route ends with the 400    *)
(* "User is not active." while the tables are as the service callback left *)
(* them; the associate callback route of an inactive caller ends with the  *)
(* 401 right after get_user, before the provider is called, with both      *)
(* tables as they were; and authenticate with the right password returns   *)
(* an inactive user like an active one.                                    *)
C35_InactiveUsers ==
    /\ \A o \in OAuthNames, at \in AccessTokens, ai \in AccountIds,
          ae \in Emails \cup {NoEmail}, abe \in BOOLEAN, ivd \in BOOLEAN,
          backend \in {"jwt", "session"} :
            LET c == [cfg EXCEPT !.auth_backend = backend]
                st == generate_state_token(<<>>, cfg.state_secret, now)
                s == oauth2_callback(users, oauth_accounts, nextId, c, now, o, at, ai, ae,
                                     st, cfg.state_secret, abe, ivd, FALSE, 0, "ok")
                r == oauth2_handler_callback(users, oauth_accounts, nextId, c, now, session,
                                     o, at, ai, ae, st, cfg.state_secret, abe, ivd)
            IN  /\ r.users = s.users /\ r.oauth = s.oauth
                /\ (s.res = "ok" /\ ~s.users[s.uid].is_active) =>
                        /\ r.res = "400 User is not active."
                        /\ r.token = NoSub /\ r.session = session
                /\ (s.res = "ok" /\ s.users[s.uid].is_active) =>
                        /\ r.res = "ok"
                        /\ IF backend = "session" THEN r.session = s.uid
                           ELSE r.token = ToString(s.uid)
                /\ r.token # NoSub =>
                        \E i \in DOMAIN r.users : r.token = ToString(i) /\ r.users[i].is_active
                /\ r.session # session => r.users[r.session].is_active
    /\ \A u \in DOMAIN users, o \in OAuthNames, at \in AccessTokens, ai \in AccountIds,
          ae \in Emails \cup {NoEmail}, backend \in {"jwt", "session"} :
            LET c == [cfg EXCEPT !.auth_backend = backend]
                st == generate_state_token([sub |-> ToString(u)], cfg.state_secret, now)
                r == oauth2_associate_handler_callback(users, oauth_accounts, nextId, c, now,
                        session, u, o, at, ai, ae, st, cfg.state_secret)
            IN  /\ ~users[u].is_active =>
                        /\ r.res = "401 User is not active."
                        /\ r.trace = <<"get_user">>
                        /\ r.users = users /\ r.oauth = oauth_accounts
                        /\ r.token = NoSub /\ r.session = session
                /\ r.token # NoSub => (r.token = ToString(u) /\ users[u].is_active)
                /\ r.session # session => (r.session = u /\ users[u].is_active)
    /\ \A u \in DOMAIN users, p \in Passwords :
            (~users[u].is_active /\ users[u].password_hash.pw = p) =>
                LET a == authenticate(users, [email |-> users[u].email, password |-> p],
                                      "true", "ok")
                IN  a.res = "user" /\ a.uid = u

(* C35 witness: the login callback route attached an account to an         *)
(* inactive user and then refused the login with the 400                   *)
C35_Witness ==
    /\ last.op = "oauth2.callback" /\ last.res = "400 User is not active."
    /\ last.arg.changed /\ last.arg.token = NoSub
    /\ \E a \in oauth_accounts : a.user_id \in DOMAIN users /\ ~users[a.user_id].is_active

(* C36: of the assign_role(u, r) requests that ran since u last did not    *)
(* hold r, at most one reports success: no two requests are both finished  *)
(* with success for the same user and the same role.                       *)
C36_AssignOnce ==
    \A p \in Procs, q \in Procs :
        (/\ p # q
         /\ pc[p].at = "done" /\ pc[q].at = "done"
         /\ pc[p].res = "ok" /\ pc[q].res = "ok"
         /\ pc[p].user_id = pc[q].user_id)
            => pc[p].role_id # pc[q].role_id

(* the fields of user i that differ between the tables U and V *)
ChangedFields(U, V, i) == {f \in DOMAIN U[i] : U[i][f] # V[i][f]}

(* what verify and reset_password leave alone, whatever the token: the set *)
(* of users, every user other than the token's subject, and every field of *)
(* the subject other than is_verified (verify) or password_hash            *)
(* (reset_password); a reset_password that fails changes nothing           *)
FrameOfVerifyAndReset ==
    \A tok \in TokenInputs(now) :
        /\ \A post \in HookOutcomes :
            LET v == verify(users, tok, now, post)
            IN  /\ DOMAIN v.users = DOMAIN users
                /\ \A i \in DOMAIN users :
                        /\ ChangedFields(users, v.users, i) \subseteq {"is_verified"}
                        /\ v.users[i] # users[i] =>
                                (tok # Garbage /\ tok.sub = ToString(i))
        /\ \A p \in Passwords :
            LET r == reset_password(users, tok, p, now)
            IN  /\ DOMAIN r.users = DOMAIN users
                /\ \A i \in DOMAIN users :
                        /\ ChangedFields(users, r.users, i) \subseteq {"password_hash"}
                        /\ r.users[i] # users[i] =>
                                (tok # Garbage /\ tok.sub = ToString(i))
                /\ r.res # "None" => r.users = users

(* C37, as amended: verify changes no attribute of the subject other than  *)
(* is_verified, reset_password none other than password_hash, and neither  *)
(* creates, deletes or modifies another user; a failed reset_password and  *)
(* a verify that fails on its token or on the lookup of the subject change *)
(* nothing, while a verify that fails because the post-verification hook   *)
(* raised has set is_verified on the subject.                              *)
C37_FrameAmended ==
    /\ FrameOfVerifyAndReset
    /\ \A tok \in TokenInputs(now), post \in HookOutcomes :
            LET v == verify(users, tok, now, post)
            IN  /\ v.res = "InvalidTokenException" => v.users = users
                /\ v.res = "HookRaised" =>
                        /\ post = "raise"
                        /\ v.users[parse_user_id(tok.sub)].is_verified

(* C37 witness: reset_password replaced the hash of a user that is still   *)
(* unverified, while another user keeps the hash it registered with        *)
C37_Witness ==
    /\ last.op = "reset_password" /\ last.res = "None" /\ last.arg.changed
    /\ last.uid \in DOMAIN users
    /\ ~users[last.uid].is_verified
    /\ users[last.uid].password_hash = hash("p2")
    /\ \E i \in DOMAIN users : i # last.uid /\ users[i].password_hash = hash("p1")

(* C37, as stated: the frame, and every verify or reset_password that      *)
(* fails leaves the user table as it was.                                  *)
C37_FailedChangesNothing ==
    /\ FrameOfVerifyAndReset
    /\ \A tok \in TokenInputs(now), post \in HookOutcomes :
            LET v == verify(users, tok, now, post)
            IN  v.res # "ok" => v.users = users

(* C38: whatever id the submitted data carries, the current-user update    *)
(* route changes no record other than the caller's; when a password is     *)
(* submitted and the update succeeds the caller's stored hash is the hash  *)
(* of that password, and when none is submitted the stored hash is left as *)
(* it was.                                                                 *)
C38_UpdateCurrentUser ==
    \A u \in DOMAIN users, data \in ProfileData :
        LET r == update_current_user(users, u, data)
        IN  /\ DOMAIN r.users = DOMAIN users
            /\ \A i \in DOMAIN users \ {u} : r.users[i] = users[i]
            /\ ("password_hash" \in DOMAIN data /\ r.res = "ok") =>
                    r.users[u].password_hash = hash(data.password_hash)
            /\ "password_hash" \notin DOMAIN data =>
                    r.users[u].password_hash = users[u].password_hash

(* C39: every StarliteUsersConfig that was constructed with auth_strategy  *)
(* 'session' has a session_backend_config; a construction with 'session'   *)
(* and no session_backend_config, not passed or None, fails with a         *)
(* ValidationError that carries the root validator's error; and with       *)
(* 'jwt' and the required arguments given, the construction succeeds with  *)
(* a backend config and without one.                                       *)
C39_SessionNeedsBackendConfig ==
    /\ (last.op = "StarliteUsersConfig" /\ last.res = "ok"
        /\ last.arg.config.auth_strategy = "session")
            => last.arg.config.session_backend_config \in BackendConfigs
    /\ \A a \in ConfigArgs :
        LET r == StarliteUsersConfig(a)
        IN  /\ (r.res = "ok" /\ r.config.auth_strategy = "session")
                    => r.config.session_backend_config \in BackendConfigs
            /\ (a.auth_strategy = "session" /\ a.session_backend_config \in {Unset, None})
                    => (r.res = "ValidationError" /\ "__root__" \in r.errors)
            /\ (/\ a.auth_strategy = "jwt"
                /\ a.route_handlers # Unset /\ a.user_model # Unset
                /\ a.session_backend_config \in BackendConfigs \cup {Unset, None})
                    => (r.res = "ok" /\ r.config.auth_strategy = "jwt")

(* C39 witness: a construction with 'session', every required argument and *)
(* no backend config was refused by the root validator alone               *)
C39_Witness ==
    /\ last.op = "StarliteUsersConfig" /\ last.res = "ValidationError"
    /\ last.arg.given.auth_strategy = "session"
    /\ last.arg.given.session_backend_config = Unset
    /\ last.arg.errors = {"__root__"}

====
